---- MODULE Spec2Model ----
(***************************************************************************)
(* Model of the Survey-analyzer: the statistics engine (statistics.py),    *)
(* the Gemini provider (llm_providers.py), the report generator            *)
(* (report_generator.py), the NPS panel of the dashboard                   *)
(* (visualizations.py), the file loader (data_loader.py), the output       *)
(* directory (config.py), the SurveyAnalyzer object that drives them       *)
(* (analyzer.py) and the command-line run (main.py).                       *)
(*                                                                         *)
(* Specifications.  Spec: the statistics and dashboard calls on a loaded   *)
(* dataset.  SpecRun: every analyzer operation, around a provider in each  *)
(* of its states.  SpecMain: one run of main().  SpecProgram: either of    *)
(* the two.  SpecLoad: load_from_file.  SpecDirs: analyzers constructed    *)
(* one after another while the clock runs.                                 *)
(*                                                                         *)
(* Numbers.  Python floats are modelled by exact rationals [n, d] in       *)
(* lowest terms with d > 0; the float NaN is the record with d = 0.  A     *)
(* standard deviation is the square root of a rational and is kept as      *)
(* that rational (its variance) under the field sq.                        *)
(* Cells.  A missing cell (NaN / None / NaT) is the empty tuple, a present *)
(* cell with value v is <<v>>.                                             *)
(* Exceptions.  A call returns [status |-> "ok", value |-> v] or           *)
(* [status |-> "raised", exc |-> <Python exception class>].                *)
(***************************************************************************)
EXTENDS Integers, Sequences, FiniteSets, TLC

(***************************************************************************)
(* Bounds of the explored inputs                                           *)
(***************************************************************************)
MaxRows == 1
MaxScoreRows == 3
MaxSegRows == 3
MaxFeedbackRows == 2

(***************************************************************************)
(* Rational arithmetic standing for float arithmetic                       *)
(***************************************************************************)
Abs(x) == IF x < 0 THEN -x ELSE x

RECURSIVE GCD(_, _)
GCD(a, b) == IF b = 0 THEN a ELSE GCD(b, a % b)

NaN == [n |-> 0, d |-> 0]

Rat(n, d) ==
    IF d = 0 THEN NaN
    ELSE LET s == IF d < 0 THEN -1 ELSE 1
             g == GCD(Abs(n), Abs(d))
         IN  [n |-> (s * n) \div g, d |-> (s * d) \div g]

IsNaN(r) == r.d = 0
RInt(k) == [n |-> k, d |-> 1]
RSub(a, b) == IF IsNaN(a) \/ IsNaN(b) THEN NaN ELSE Rat(a.n * b.d - b.n * a.d, a.d * b.d)
RMul(a, b) == IF IsNaN(a) \/ IsNaN(b) THEN NaN ELSE Rat(a.n * b.n, a.d * b.d)
\* float comparisons: every comparison with NaN is False
RLe(a, b) == ~IsNaN(a) /\ ~IsNaN(b) /\ a.n * b.d <= b.n * a.d

(***************************************************************************)
(* Cells, rows, datasets                                                   *)
(***************************************************************************)
NA == <<>>
Some(v) == <<v>>
IsNA(c) == c = <<>>
Val(c) == c[1]

NumericCols == <<"satisfaction", "product_quality", "customer_service",
                 "value_for_money", "likelihood_to_recommend">>

OptionalColumns == {"timestamp", "satisfaction", "product_quality", "customer_service",
                    "value_for_money", "likelihood_to_recommend", "region", "age_group",
                    "feedback"}

\* len(df), df.columns, df[c]
DfLen(df) == Len(df.rows)
HasCol(df, c) == c \in df.columns
Column(df, c) == [i \in 1..DfLen(df) |-> df.rows[i][c]]

(***************************************************************************)
(* pandas Series reductions (all skip missing cells)                       *)
(***************************************************************************)
RECURSIVE Present(_, _)
Present(col, k) ==
    IF k = 0 THEN <<>>
    ELSE IF IsNA(col[k]) THEN Present(col, k - 1)
         ELSE Append(Present(col, k - 1), Val(col[k]))

\* the non-missing values of a column, in row order
Values(col) == Present(col, Len(col))

RECURSIVE SeqSum(_)
SeqSum(s) == IF Len(s) = 0 THEN 0 ELSE Head(s) + SeqSum(Tail(s))

RECURSIVE SeqSumSq(_)
SeqSumSq(s) == IF Len(s) = 0 THEN 0 ELSE Head(s) * Head(s) + SeqSumSq(Tail(s))

RECURSIVE Insert(_, _)
Insert(x, s) ==
    IF Len(s) = 0 THEN <<x>>
    ELSE IF x <= Head(s) THEN <<x>> \o s ELSE <<Head(s)>> \o Insert(x, Tail(s))

RECURSIVE Sorted(_)
Sorted(s) == IF Len(s) = 0 THEN <<>> ELSE Insert(Head(s), Sorted(Tail(s)))

\* Series.mean()
SeriesMean(col) ==
    LET v == Values(col)
    IN  IF Len(v) = 0 THEN NaN ELSE Rat(SeqSum(v), Len(v))

\* Series.std(), sample standard deviation (ddof = 1), kept as its square
SeriesStd(col) ==
    LET v == Values(col)
        k == Len(v)
    IN  [sq |-> IF k < 2 THEN NaN
                ELSE Rat(k * SeqSumSq(v) - SeqSum(v) * SeqSum(v), k * (k - 1))]

\* Series.quantile(qn/qd) with linear interpolation; Series.median() is q = 1/2
SeriesQuantile(col, qn, qd) ==
    LET s == Sorted(Values(col))
        k == Len(s)
        lo == ((k - 1) * qn) \div qd
        rem == ((k - 1) * qn) % qd
    IN  IF k = 0 THEN NaN
        ELSE IF rem = 0 THEN RInt(s[lo + 1])
        ELSE Rat(s[lo + 1] * qd + (s[lo + 2] - s[lo + 1]) * rem, qd)

\* Series.min() / Series.max() of a datetime column: NaT when nothing is present
SeriesMin(col) ==
    LET s == Sorted(Values(col)) IN IF Len(s) = 0 THEN NA ELSE Some(s[1])

SeriesMax(col) ==
    LET s == Sorted(Values(col)) IN IF Len(s) = 0 THEN NA ELSE Some(s[Len(s)])

\* str(Timestamp.date()); NaT.date() is NaT
DateStr(c) ==
    IF IsNA(c) THEN "NaT"
    ELSE IF Val(c) = 1 THEN "2024-01-01"
    ELSE IF Val(c) = 2 THEN "2024-01-02"
    ELSE "2024-01-03"

Ok(v) == [status |-> "ok", value |-> v]
Raised(e) == [status |-> "raised", exc |-> e]
IsOk(r) == r.status = "ok"

(***************************************************************************)
(* StatisticsCalculator                                                    *)
(***************************************************************************)
\* len(df[df[c] >= lo]) style counts: a missing score satisfies no comparison
CountGE(col, lo) == Cardinality({i \in 1..Len(col) : ~IsNA(col[i]) /\ Val(col[i]) >= lo})
CountLE(col, hi) == Cardinality({i \in 1..Len(col) : ~IsNA(col[i]) /\ Val(col[i]) <= hi})
\* variant: the lower end of the band is one score too low
CountBetween_low(col, lo, hi) ==
    Cardinality({i \in 1..Len(col) : ~IsNA(col[i]) /\ Val(col[i]) >= lo - 1 /\ Val(col[i]) <= hi})

CountBetween(col, lo, hi) ==
    Cardinality({i \in 1..Len(col) : ~IsNA(col[i]) /\ Val(col[i]) >= lo /\ Val(col[i]) <= hi})

\* variant: the guard for zero records is missing, the division faults
calculate_nps_noguard(df, nps_column) ==
    LET total == DfLen(df)
    IN  IF ~HasCol(df, nps_column) THEN Raised("KeyError")
        ELSE IF total = 0 THEN Raised("ZeroDivisionError")
        ELSE LET promoters == CountGE(Column(df, nps_column), 9)
                 detractors == CountLE(Column(df, nps_column), 6)
             IN  Ok(RMul(Rat(promoters - detractors, total), RInt(100)))

\* variant: promoters are the scores strictly above 9
calculate_nps_strict(df, nps_column) ==
    LET total == DfLen(df)
    IN  IF total = 0 THEN Ok(RInt(0))
        ELSE IF ~HasCol(df, nps_column) THEN Raised("KeyError")
        ELSE LET promoters == CountGE(Column(df, nps_column), 10)
                 detractors == CountLE(Column(df, nps_column), 6)
             IN  Ok(RMul(Rat(promoters - detractors, total), RInt(100)))

calculate_nps(df, nps_column) ==
    LET total == DfLen(df)
    IN  IF total = 0 THEN Ok(RInt(0))
        ELSE IF ~HasCol(df, nps_column) THEN Raised("KeyError")
        ELSE LET promoters == CountGE(Column(df, nps_column), 9)
                 detractors == CountLE(Column(df, nps_column), 6)
             IN  Ok(RMul(Rat(promoters - detractors, total), RInt(100)))

MissingCells(df) ==
    Cardinality({p \in (1..DfLen(df)) \X df.columns : IsNA(df.rows[p[1]][p[2]])})

\* variant: the cell total forgets the number of columns
calculate_completion_rate_rowsonly(df) ==
    IF DfLen(df) = 0 THEN RInt(0)
    ELSE LET total_cells == DfLen(df)
             missing_cells == MissingCells(df)
         IN  IF total_cells > 0
             THEN RSub(RInt(100), RMul(Rat(missing_cells, total_cells), RInt(100)))
             ELSE RInt(100)

calculate_completion_rate(df) ==
    IF DfLen(df) = 0 THEN RInt(0)
    ELSE LET total_cells == DfLen(df) * Cardinality(df.columns)
             missing_cells == MissingCells(df)
         IN  IF total_cells > 0
             THEN RSub(RInt(100), RMul(Rat(missing_cells, total_cells), RInt(100)))
             ELSE RInt(100)

(***************************************************************************)
(* groupby: the group keys are the distinct non-missing values of the      *)
(* segment column, in sorted order (Python string order).  KeyOrder lists  *)
(* the segment values of the explored data in that order.                  *)
(***************************************************************************)
KeyOrder == <<"18-25", "26-35", "East", "North", "South">>

KeyPresent(df, seg, k) == \E i \in 1..DfLen(df) : df.rows[i][seg] = Some(k)

GroupKeys(df, seg) == SelectSeq(KeyOrder, LAMBDA k : KeyPresent(df, seg, k))

\* the cells of column c in the rows of group k, in row order
GroupColumn(df, seg, k, c) ==
    LET idx == SelectSeq([i \in 1..DfLen(df) |-> i], LAMBDA i : df.rows[i][seg] = Some(k))
    IN  [j \in 1..Len(idx) |-> df.rows[idx[j]][c]]

\* df.groupby(seg)[c].mean() as a sequence aligned with GroupKeys
GroupMeans(df, seg, c) ==
    LET keys == GroupKeys(df, seg)
    IN  [j \in 1..Len(keys) |-> SeriesMean(GroupColumn(df, seg, keys[j], c))]

\* Series.max() over the group means, skipping NaN
MeansMax(means) ==
    IF \A j \in 1..Len(means) : IsNaN(means[j]) THEN NaN
    ELSE LET j == CHOOSE a \in 1..Len(means) :
                      /\ ~IsNaN(means[a])
                      /\ \A b \in 1..Len(means) : IsNaN(means[b]) \/ RLe(means[b], means[a])
         IN  means[j]

\* variant: among several maximal entries the label returned differs from
\* one call to the next
IdxMax_anymax(keys, means, allna_raises) ==
    IF Len(keys) = 0 THEN Raised("ValueError")
    ELSE IF \A j \in 1..Len(means) : IsNaN(means[j])
         THEN IF allna_raises THEN Raised("ValueError") ELSE Ok("nan")
    ELSE LET best == MeansMax(means)
             first == CHOOSE a \in 1..Len(means) :
                          /\ means[a] = best
                          /\ \A b \in 1..(a - 1) : means[b] # best
             last == CHOOSE a \in 1..Len(means) :
                         /\ means[a] = best
                         /\ \A b \in (a + 1)..Len(means) : means[b] # best
         IN  Ok(keys[IF allna_raises THEN last ELSE first])

\* Series.idxmax(): label of the first maximal non-NaN entry.  An empty
\* series raises ValueError; an all-NaN series yields nan or raises
\* ValueError depending on the pandas release (allna_raises).
IdxMax(keys, means, allna_raises) ==
    IF Len(keys) = 0 THEN Raised("ValueError")
    ELSE IF \A j \in 1..Len(means) : IsNaN(means[j])
         THEN IF allna_raises THEN Raised("ValueError") ELSE Ok("nan")
    ELSE LET best == MeansMax(means)
             first == CHOOSE a \in 1..Len(means) :
                          /\ means[a] = best
                          /\ \A b \in 1..(a - 1) : means[b] # best
         IN  Ok(keys[first])

\* lines 75-81 / 83-89: best segment by mean satisfaction
BestSegment(df, seg, allna_raises) ==
    IF HasCol(df, seg) /\ HasCol(df, "satisfaction")
    THEN LET means == GroupMeans(df, seg, "satisfaction")
             name == IdxMax(GroupKeys(df, seg), means, allna_raises)
         IN  IF IsOk(name)
             THEN Ok([name |-> name.value, score |-> MeansMax(means)])
             ELSE name
    ELSE Ok([name |-> "N/A", score |-> RInt(0)])

\* variant: an absent column yields NaN instead of 0.0
MeanOrDefault_nan(df, c) == IF HasCol(df, c) THEN SeriesMean(Column(df, c)) ELSE NaN

MeanOrDefault(df, c) == IF HasCol(df, c) THEN SeriesMean(Column(df, c)) ELSE RInt(0)
StdOrDefault(df, c) == IF HasCol(df, c) THEN SeriesStd(Column(df, c)) ELSE [sq |-> RInt(0)]
QuantileOrDefault(df, c, qn, qd) ==
    IF HasCol(df, c) THEN SeriesQuantile(Column(df, c), qn, qd) ELSE RInt(0)

DateRange(df) ==
    IF HasCol(df, "timestamp")
    THEN <<DateStr(SeriesMin(Column(df, "timestamp"))), "to",
           DateStr(SeriesMax(Column(df, "timestamp")))>>
    ELSE <<"N/A">>

\* variant: total_responses counts only the rows without a missing cell
CompleteRows(df) ==
    Cardinality({i \in 1..DfLen(df) : \A c \in df.columns : ~IsNA(df.rows[i][c])})

calculate_comprehensive_stats_dropna(df, allna_raises) ==
    LET nps == calculate_nps(df, "likelihood_to_recommend")
        hasNps == HasCol(df, "likelihood_to_recommend")
        ltr == Column(df, "likelihood_to_recommend")
        region == BestSegment(df, "region", allna_raises)
        age == BestSegment(df, "age_group", allna_raises)
    IN  IF ~IsOk(nps) THEN nps
        ELSE IF ~IsOk(region) THEN region
        ELSE IF ~IsOk(age) THEN age
        ELSE Ok([total_responses |-> CompleteRows(df),
                 date_range |-> DateRange(df),
                 completion_rate |-> calculate_completion_rate(df),
                 avg_satisfaction |-> MeanOrDefault(df, "satisfaction"),
                 avg_product_quality |-> MeanOrDefault(df, "product_quality"),
                 avg_customer_service |-> MeanOrDefault(df, "customer_service"),
                 avg_value |-> MeanOrDefault(df, "value_for_money"),
                 avg_nps |-> MeanOrDefault(df, "likelihood_to_recommend"),
                 std_satisfaction |-> StdOrDefault(df, "satisfaction"),
                 std_product_quality |-> StdOrDefault(df, "product_quality"),
                 std_customer_service |-> StdOrDefault(df, "customer_service"),
                 nps_score |-> nps.value,
                 promoters |-> IF hasNps THEN CountGE(ltr, 9) ELSE 0,
                 passives |-> IF hasNps THEN CountBetween(ltr, 7, 8) ELSE 0,
                 detractors |-> IF hasNps THEN CountLE(ltr, 6) ELSE 0,
                 satisfaction_p25 |-> QuantileOrDefault(df, "satisfaction", 1, 4),
                 satisfaction_median |-> QuantileOrDefault(df, "satisfaction", 1, 2),
                 satisfaction_p75 |-> QuantileOrDefault(df, "satisfaction", 3, 4),
                 best_region |-> region.value.name,
                 best_region_score |-> region.value.score,
                 top_age_group |-> age.value.name,
                 top_age_score |-> age.value.score])

calculate_comprehensive_stats(df, allna_raises) ==
    LET nps == calculate_nps(df, "likelihood_to_recommend")
        hasNps == HasCol(df, "likelihood_to_recommend")
        ltr == Column(df, "likelihood_to_recommend")
        region == BestSegment(df, "region", allna_raises)
        age == BestSegment(df, "age_group", allna_raises)
    IN  IF ~IsOk(nps) THEN nps
        ELSE IF ~IsOk(region) THEN region
        ELSE IF ~IsOk(age) THEN age
        ELSE Ok([total_responses |-> DfLen(df),
                 date_range |-> DateRange(df),
                 completion_rate |-> calculate_completion_rate(df),
                 avg_satisfaction |-> MeanOrDefault(df, "satisfaction"),
                 avg_product_quality |-> MeanOrDefault(df, "product_quality"),
                 avg_customer_service |-> MeanOrDefault(df, "customer_service"),
                 avg_value |-> MeanOrDefault(df, "value_for_money"),
                 avg_nps |-> MeanOrDefault(df, "likelihood_to_recommend"),
                 std_satisfaction |-> StdOrDefault(df, "satisfaction"),
                 std_product_quality |-> StdOrDefault(df, "product_quality"),
                 std_customer_service |-> StdOrDefault(df, "customer_service"),
                 nps_score |-> nps.value,
                 promoters |-> IF hasNps THEN CountGE(ltr, 9) ELSE 0,
                 passives |-> IF hasNps THEN CountBetween(ltr, 7, 8) ELSE 0,
                 detractors |-> IF hasNps THEN CountLE(ltr, 6) ELSE 0,
                 satisfaction_p25 |-> QuantileOrDefault(df, "satisfaction", 1, 4),
                 satisfaction_median |-> QuantileOrDefault(df, "satisfaction", 1, 2),
                 satisfaction_p75 |-> QuantileOrDefault(df, "satisfaction", 3, 4),
                 best_region |-> region.value.name,
                 best_region_score |-> region.value.score,
                 top_age_group |-> age.value.name,
                 top_age_score |-> age.value.score])

(***************************************************************************)
(* DataFrame.round(2): round half to even at two decimals                  *)
(***************************************************************************)
HalfEven(f, cmp) ==
    IF cmp < 0 THEN f
    ELSE IF cmp > 0 THEN f + 1
    ELSE IF f % 2 = 0 THEN f ELSE f + 1

Round2(r) ==
    IF IsNaN(r) THEN NaN
    ELSE LET f == (r.n * 100) \div r.d
             rem == (r.n * 100) % r.d
         IN  Rat(HalfEven(f, 2 * rem - r.d), 100)

\* largest f in lo..hi-1 with f*f*b <= a, given lo*lo*b <= a < hi*hi*b
RECURSIVE FloorSqrt(_, _, _, _)
FloorSqrt(a, b, lo, hi) ==
    IF hi - lo <= 1 THEN lo
    ELSE LET mid == (lo + hi) \div 2
         IN  IF mid * mid * b <= a THEN FloorSqrt(a, b, mid, hi)
             ELSE FloorSqrt(a, b, lo, mid)

\* a power of two h with h*h*b > a
RECURSIVE SqrtBound(_, _, _)
SqrtBound(a, b, h) == IF h * h * b > a THEN h ELSE SqrtBound(a, b, 2 * h)

\* round(sqrt(v), 2) for a variance v
Round2Sqrt(v) ==
    IF IsNaN(v) THEN NaN
    ELSE LET a == v.n * 10000
             b == v.d
             f == FloorSqrt(a, b, 0, SqrtBound(a, b, 1))
         IN  Rat(HalfEven(f, 4 * a - (2 * f + 1) * (2 * f + 1) * b), 100)

AggKinds == <<"mean", "std", "count">>

EmptyTable == [index |-> <<>>, columns |-> <<>>, data |-> <<>>]

SeqToSet(s) == {s[i] : i \in 1..Len(s)}

\* columns of the aggregated table: (metric, kind) pairs, metric-major
AggColumns(available) ==
    [j \in 1..(3 * Len(available)) |->
        <<available[((j - 1) \div 3) + 1], AggKinds[((j - 1) % 3) + 1]>>]

\* variant: count is the group size, missing values included
AggCell_size(gcol) ==
    [mean |-> Round2(SeriesMean(gcol)),
     std |-> Round2Sqrt(SeriesStd(gcol).sq),
     count |-> Len(gcol)]

AggCell(gcol) ==
    [mean |-> Round2(SeriesMean(gcol)),
     std |-> Round2Sqrt(SeriesStd(gcol).sq),
     count |-> Len(Values(gcol))]

\* variant: groups before looking for metric columns
analyze_by_segment_groupfirst(df, segment_column) ==
    LET available_cols == SelectSeq(NumericCols, LAMBDA c : HasCol(df, c))
    IN  IF ~HasCol(df, segment_column) THEN Raised("KeyError")
        ELSE IF Len(available_cols) = 0 THEN Ok(EmptyTable)
        ELSE LET keys == GroupKeys(df, segment_column)
             IN  Ok([index |-> keys,
                     columns |-> AggColumns(available_cols),
                     data |-> [k \in SeqToSet(keys) |->
                                 [c \in SeqToSet(available_cols) |->
                                     AggCell(GroupColumn(df, segment_column, k, c))]]])

analyze_by_segment(df, segment_column) ==
    LET available_cols == SelectSeq(NumericCols, LAMBDA c : HasCol(df, c))
    IN  IF Len(available_cols) = 0 THEN Ok(EmptyTable)
        ELSE IF ~HasCol(df, segment_column) THEN Raised("KeyError")
        ELSE LET keys == GroupKeys(df, segment_column)
             IN  Ok([index |-> keys,
                     columns |-> AggColumns(available_cols),
                     data |-> [k \in SeqToSet(keys) |->
                                 [c \in SeqToSet(available_cols) |->
                                     AggCell(GroupColumn(df, segment_column, k, c))]]])

(***************************************************************************)
(* get_sentiment_analysis.  A text is a string; Chars gives its characters *)
(* for the feedback texts and list words of the explored data, so that     *)
(* lower-casing and substring search are computed character by character.  *)
(***************************************************************************)
Chars(s) ==
    CASE s = "Excellent product quality!" -> <<"E", "x", "c", "e", "l", "l", "e", "n",
            "t", " ", "p", "r", "o", "d", "u", "c", "t", " ", "q", "u", "a", "l", "i",
            "t", "y", "!">>
      [] s = "Could be better" -> <<"C", "o", "u", "l", "d", " ", "b", "e", " ", "b",
            "e", "t", "t", "e", "r">>
      [] s = "Not satisfied" -> <<"N", "o", "t", " ", "s", "a", "t", "i", "s", "f", "i",
            "e", "d">>
      [] s = "Great great bad" -> <<"G", "r", "e", "a", "t", " ", "g", "r", "e", "a",
            "t", " ", "b", "a", "d">>
      [] s = "Poor service" -> <<"P", "o", "o", "r", " ", "s", "e", "r", "v", "i", "c",
            "e">>
      [] s = "Love it, one issue, bad" -> <<"L", "o", "v", "e", " ", "i", "t", ",", " ",
            "o", "n", "e", " ", "i", "s", "s", "u", "e", ",", " ", "b", "a", "d">>
      [] s = "Amazing and perfect, one issue" -> <<"A", "m", "a", "z", "i", "n", "g",
            " ", "a", "n", "d", " ", "p", "e", "r", "f", "e", "c", "t", ",", " ", "o",
            "n", "e", " ", "i", "s", "s", "u", "e">>
      [] s = "excellent" -> <<"e", "x", "c", "e", "l", "l", "e", "n", "t">>
      [] s = "great" -> <<"g", "r", "e", "a", "t">>
      [] s = "amazing" -> <<"a", "m", "a", "z", "i", "n", "g">>
      [] s = "fantastic" -> <<"f", "a", "n", "t", "a", "s", "t", "i", "c">>
      [] s = "love" -> <<"l", "o", "v", "e">>
      [] s = "perfect" -> <<"p", "e", "r", "f", "e", "c", "t">>
      [] s = "outstanding" -> <<"o", "u", "t", "s", "t", "a", "n", "d", "i", "n", "g">>
      [] s = "wonderful" -> <<"w", "o", "n", "d", "e", "r", "f", "u", "l">>
      [] s = "satisfied" -> <<"s", "a", "t", "i", "s", "f", "i", "e", "d">>
      [] s = "recommend" -> <<"r", "e", "c", "o", "m", "m", "e", "n", "d">>
      [] s = "exceeded" -> <<"e", "x", "c", "e", "e", "d", "e", "d">>
      [] s = "poor" -> <<"p", "o", "o", "r">>
      [] s = "bad" -> <<"b", "a", "d">>
      [] s = "terrible" -> <<"t", "e", "r", "r", "i", "b", "l", "e">>
      [] s = "disappointed" -> <<"d", "i", "s", "a", "p", "p", "o", "i", "n", "t", "e",
            "d">>
      [] s = "awful" -> <<"a", "w", "f", "u", "l">>
      [] s = "horrible" -> <<"h", "o", "r", "r", "i", "b", "l", "e">>
      [] s = "worse" -> <<"w", "o", "r", "s", "e">>
      [] s = "not satisfied" -> <<"n", "o", "t", " ", "s", "a", "t", "i", "s", "f", "i",
            "e", "d">>
      [] s = "problem" -> <<"p", "r", "o", "b", "l", "e", "m">>
      [] s = "issue" -> <<"i", "s", "s", "u", "e">>
      [] s = "complaint" -> <<"c", "o", "m", "p", "l", "a", "i", "n", "t">>

UpperAlpha == <<"A", "B", "C", "D", "E", "F", "G", "H", "I", "J", "K", "L", "M",
                "N", "O", "P", "Q", "R", "S", "T", "U", "V", "W", "X", "Y", "Z">>
LowerAlpha == <<"a", "b", "c", "d", "e", "f", "g", "h", "i", "j", "k", "l", "m",
                "n", "o", "p", "q", "r", "s", "t", "u", "v", "w", "x", "y", "z">>

\* str.lower()
LowerChar(c) ==
    IF \E i \in 1..26 : UpperAlpha[i] = c
    THEN LowerAlpha[CHOOSE i \in 1..26 : UpperAlpha[i] = c]
    ELSE c
Lower(t) == [i \in 1..Len(t) |-> LowerChar(t[i])]

\* word in text
Contains(t, w) ==
    \E start \in 0..(Len(t) - Len(w)) : \A j \in 1..Len(w) : t[start + j] = w[j]

positive_words == <<"excellent", "great", "amazing", "fantastic", "love", "perfect",
    "outstanding", "wonderful", "satisfied", "recommend", "exceeded">>

negative_words == <<"poor", "bad", "terrible", "disappointed", "awful", "horrible",
    "worse", "not satisfied", "problem", "issue", "complaint">>

\* sum(word in text_lower for word in words)
RECURSIVE MatchCount(_, _)
MatchCount(t, words) ==
    IF Len(words) = 0 THEN 0
    ELSE (IF Contains(t, Chars(Head(words))) THEN 1 ELSE 0) + MatchCount(t, Tail(words))

\* variant: the text is matched without lower-casing
classify_sentiment_nolower(cell) ==
    IF IsNA(cell) THEN "neutral"
    ELSE LET text_lower == Chars(Val(cell))
             pos_count == MatchCount(text_lower, positive_words)
             neg_count == MatchCount(text_lower, negative_words)
         IN  IF pos_count > neg_count THEN "positive"
             ELSE IF neg_count > pos_count THEN "negative"
             ELSE "neutral"

classify_sentiment(cell) ==
    IF IsNA(cell) THEN "neutral"
    ELSE LET text_lower == Lower(Chars(Val(cell)))
             pos_count == MatchCount(text_lower, positive_words)
             neg_count == MatchCount(text_lower, negative_words)
         IN  IF pos_count > neg_count THEN "positive"
             ELSE IF neg_count > pos_count THEN "negative"
             ELSE "neutral"

\* sentiment_counts.get(label, 0)
SentimentCount(df, label) ==
    Cardinality({i \in 1..DfLen(df) : classify_sentiment(df.rows[i]["feedback"]) = label})

None == <<>>

\* variant: a dataset without feedback yields an all-zero summary
get_sentiment_analysis_nosignal(df) ==
    IF ~HasCol(df, "feedback")
    THEN Ok(<<[positive |-> 0, neutral |-> 0, negative |-> 0, positive_pct |-> RInt(0)]>>)
    ELSE IF DfLen(df) = 0 THEN Raised("ZeroDivisionError")
    ELSE Ok(<<[positive |-> SentimentCount(df, "positive"),
               neutral |-> SentimentCount(df, "neutral"),
               negative |-> SentimentCount(df, "negative"),
               positive_pct |-> RMul(Rat(SentimentCount(df, "positive"), DfLen(df)),
                                     RInt(100))]>>)

\* Optional[Dict]: <<>> is None, <<d>> a summary d
get_sentiment_analysis(df) ==
    IF ~HasCol(df, "feedback") THEN Ok(None)
    ELSE IF DfLen(df) = 0 THEN Raised("ZeroDivisionError")
    ELSE Ok(<<[positive |-> SentimentCount(df, "positive"),
               neutral |-> SentimentCount(df, "neutral"),
               negative |-> SentimentCount(df, "negative"),
               positive_pct |-> RMul(Rat(SentimentCount(df, "positive"), DfLen(df)),
                                     RInt(100))]>>)

(***************************************************************************)
(* Explored datasets                                                       *)
(***************************************************************************)
SeqsUpTo(S, n) == UNION {[1..k -> S] : k \in 0..n}

Restrict(row, cols) == [c \in cols |-> row[c]]

\* full rows in the shape of DataLoader.generate_sample_data, plus a row
\* with missing cells and a row that is missing everywhere
RowHigh ==
    [timestamp |-> Some(1), satisfaction |-> Some(5), product_quality |-> Some(4),
     customer_service |-> Some(3), value_for_money |-> Some(2),
     likelihood_to_recommend |-> Some(9), region |-> Some("North"),
     age_group |-> Some("18-25"), feedback |-> Some("Excellent product quality!")]

RowLow ==
    [timestamp |-> Some(2), satisfaction |-> Some(1), product_quality |-> NA,
     customer_service |-> Some(5), value_for_money |-> Some(4),
     likelihood_to_recommend |-> Some(6), region |-> Some("South"),
     age_group |-> Some("26-35"), feedback |-> Some("Could be better")]

RowBlank == [c \in OptionalColumns |-> NA]

TemplateRows == {RowHigh, RowLow, RowBlank}

\* any subset of the optional columns, up to MaxRows template rows
ColumnDatasets ==
    UNION {{[columns |-> cols, rows |-> rs] :
               rs \in SeqsUpTo({Restrict(t, cols) : t \in TemplateRows}, MaxRows)} :
           cols \in SUBSET OptionalColumns}

\* a lone recommendation column over a range of scores, missing and
\* out-of-scale ones included
Scores == {NA, Some(0), Some(6), Some(7), Some(8), Some(9), Some(10), Some(11)}

ScoreDatasets ==
    {[columns |-> {"likelihood_to_recommend"}, rows |-> rs] :
        rs \in SeqsUpTo({[likelihood_to_recommend |-> x] : x \in Scores}, MaxScoreRows)}

\* a segment column next to satisfaction and the recommendation score
SegRows(seg) ==
    {(seg :> k) @@ [satisfaction |-> v, likelihood_to_recommend |-> Some(9)] :
        k \in {NA, Some("East"), Some("North")},
        v \in {NA, Some(1), Some(5)}}

SegDatasets ==
    {[columns |-> {"region", "satisfaction", "likelihood_to_recommend"}, rows |-> rs] :
        rs \in SeqsUpTo(SegRows("region"), MaxSegRows)}

\* a lone feedback column over texts of either polarity, mixed case,
\* repeated words and overlapping list words, and missing feedback
FeedbackTexts ==
    {NA, Some("Excellent product quality!"), Some("Could be better"),
     Some("Not satisfied"), Some("Great great bad"), Some("Poor service"),
     Some("Love it, one issue, bad"), Some("Amazing and perfect, one issue")}

FeedbackDatasets ==
    {[columns |-> {"feedback"}, rows |-> rs] :
        rs \in SeqsUpTo({[feedback |-> x] : x \in FeedbackTexts}, MaxFeedbackRows)}

ScoreRow(x) == [likelihood_to_recommend |-> Some(x)]
SatRow(x) == [satisfaction |-> Some(x)]

\* the two worked datasets of the documentation
Scenario1 ==
    [columns |-> {"likelihood_to_recommend"},
     rows |-> <<ScoreRow(9), ScoreRow(9), ScoreRow(9), ScoreRow(8), ScoreRow(8),
                ScoreRow(7), ScoreRow(6), ScoreRow(5), ScoreRow(3), ScoreRow(2)>>]

Scenario3 ==
    [columns |-> {"satisfaction"},
     rows |-> <<SatRow(5), SatRow(5), SatRow(5), SatRow(1), SatRow(1)>>]

Datasets ==
    ColumnDatasets \cup ScoreDatasets \cup SegDatasets \cup FeedbackDatasets
        \cup {Scenario1, Scenario3}

(***************************************************************************)
(* get_sentiment_analysis: where the per-record sentiment column goes      *)
(***************************************************************************)
\* frame[...]['sentiment'] = frame['feedback'].apply(classify_sentiment)
AddSentimentColumn(frame) ==
    [columns |-> frame.columns \cup {"sentiment"},
     rows |-> [i \in 1..Len(frame.rows) |->
                 [c \in frame.columns \cup {"sentiment"} |->
                     IF c = "sentiment"
                     THEN Some(classify_sentiment(frame.rows[i]["feedback"]))
                     ELSE frame.rows[i][c]]]]

\* variant: the sentiment column is assigned on the caller's frame
SentimentCallerFrame_inplace(df) ==
    IF ~HasCol(df, "feedback") THEN df ELSE AddSentimentColumn(df)

\* the caller's frame after get_sentiment_analysis(df): the column is
\* assigned on df_copy = df.copy(), so the caller's frame is as it was
SentimentCallerFrame(df) ==
    IF ~HasCol(df, "feedback") THEN df
    ELSE LET df_copy == AddSentimentColumn(df) IN df

(***************************************************************************)
(* GeminiProvider (llm_providers.py)                                       *)
(***************************************************************************)
\* BaseLLMProvider.__init__, before a provider is set up
BaseLLMProvider == [name |-> "Base", available |-> FALSE, model |-> FALSE, api_key |-> FALSE]

\* GeminiProvider.__init__ in an environment: lib is GEMINI_AVAILABLE, key
\* is whether api_key.py holds a key, init_ok is whether genai.configure
\* and GenerativeModel return; model stands for "self.model is not None"
GeminiProvider(environment) ==
    LET base == [name |-> "Google Gemini Flash 2.5", available |-> FALSE,
                 model |-> FALSE, api_key |-> environment.key]
    IN  IF ~environment.lib THEN base
        ELSE IF ~environment.key THEN base
        ELSE IF environment.init_ok THEN [base EXCEPT !.model = TRUE, !.available = TRUE]
        ELSE base

\* variant: an unavailable provider is handed out as well
get_llm_provider_lenient(environment) == Ok(GeminiProvider(environment))

\* get_llm_provider()
get_llm_provider(environment) ==
    LET provider == GeminiProvider(environment)
    IN  IF provider.available THEN Ok(provider) ELSE Raised("RuntimeError")

\* what model.generate_content does with a request: it raises, or it
\* answers with a response whose text is one of these
ResponseTexts == {"Insight", " Insight ", " ", ""}
Responses ==
    {[raises |-> TRUE, text |-> ""]} \cup {[raises |-> FALSE, text |-> t] : t \in ResponseTexts}

\* str.strip() on the response texts
Strip(s) ==
    CASE s = " Insight " -> "Insight"
      [] s = " " -> ""
      [] OTHER -> s

\* variant: an exception of the request propagates to the caller
generate_nohandler(provider, prompt, response) ==
    IF ~provider.available \/ ~provider.model THEN [res |-> Ok(None), calls |-> <<>>]
    ELSE IF response.raises THEN [res |-> Raised("Exception"), calls |-> <<prompt>>]
    ELSE [res |-> Ok(IF response.text # "" THEN <<Strip(response.text)>> ELSE None),
          calls |-> <<prompt>>]

\* GeminiProvider.generate(prompt): the returned Optional[str] and the
\* requests sent to the model
generate(provider, prompt, response) ==
    IF ~provider.available \/ ~provider.model THEN [res |-> Ok(None), calls |-> <<>>]
    ELSE IF response.raises THEN [res |-> Ok(None), calls |-> <<prompt>>]
    ELSE [res |-> Ok(IF response.text # "" THEN <<Strip(response.text)>> ELSE None),
          calls |-> <<prompt>>]

\* the answers a request to the provider can meet: none is consulted when
\* the provider sends no request
ResponsesTo(provider) ==
    IF provider.available /\ provider.model THEN Responses
    ELSE {[raises |-> FALSE, text |-> ""]}

\* truth value of an Optional[str]
Truthy(opt) == opt # None /\ opt[1] # ""

(***************************************************************************)
(* ReportGenerator (report_generator.py)                                   *)
(***************************************************************************)
GeminiUnavailableText == "[Gemini not available - check api_key.py]"

InsightTypes == {"summary", "trends", "recommendations", "other"}

\* f"[Error generating {insight_type} insights]"
ErrorInsights(insight_type) ==
    CASE insight_type = "summary" -> "[Error generating summary insights]"
      [] insight_type = "trends" -> "[Error generating trends insights]"
      [] insight_type = "recommendations" -> "[Error generating recommendations insights]"
      [] OTHER -> "[Error generating other insights]"

\* prompts.get(insight_type, prompts["summary"])
PromptFor(insight_type) ==
    IF insight_type \in {"summary", "trends", "recommendations"} THEN insight_type
    ELSE "summary"

\* ReportGenerator.get_llm_insights(insight_type).  The prompts dictionary
\* is built before the lookup, and its first entry divides by
\* stats['total_responses'].
report_get_llm_insights(stats, llm_provider, insight_type, response) ==
    IF ~llm_provider.available THEN [res |-> Ok(GeminiUnavailableText), calls |-> <<>>]
    ELSE IF stats.total_responses = 0
    THEN [res |-> Raised("ZeroDivisionError"), calls |-> <<>>]
    ELSE LET Answer(g) ==
                 IF ~IsOk(g.res) THEN g
                 ELSE [res |-> Ok(IF Truthy(g.res.value) THEN g.res.value[1]
                                  ELSE ErrorInsights(insight_type)),
                       calls |-> g.calls]
         IN  Answer(generate(llm_provider, PromptFor(insight_type), response))

\* DataFrame.empty of a segment table
TableEmpty(t) == Len(t.index) = 0 \/ Len(t.columns) = 0

\* variant: the table is written whenever one is handed over, empty or not
SectionIf_supplied(table, name) == IF table # None THEN <<name>> ELSE <<>>

\* "table is not None and not table.empty"
SectionIf(table, name) ==
    IF table # None /\ ~TableEmpty(table[1]) THEN <<name>> ELSE <<>>

\* ReportGenerator.generate_report(save_path, sentiment, age_analysis,
\* region_analysis): the sections written, the three narrative texts and
\* the requests sent.  The first block divides by stats['total_responses'].
report_generate_report(stats, llm_provider, sentiment, age_analysis, region_analysis, responses) ==
    IF stats.total_responses = 0 THEN [res |-> Raised("ZeroDivisionError"), calls |-> <<>>]
    ELSE LET Compose(summary, trends, recommendations) ==
                 IF ~IsOk(summary.res) THEN summary
                 ELSE IF ~IsOk(trends.res)
                 THEN [res |-> trends.res, calls |-> summary.calls \o trends.calls]
                 ELSE IF ~IsOk(recommendations.res)
                 THEN [res |-> recommendations.res,
                       calls |-> summary.calls \o trends.calls \o recommendations.calls]
                 ELSE [res |-> Ok([file |-> "survey_report.txt",
                                   sections |->
                                       <<"header", "kpis", "nps_breakdown">>
                                       \o (IF sentiment # None THEN <<"sentiment">> ELSE <<>>)
                                       \o SectionIf(age_analysis, "age_table")
                                       \o SectionIf(region_analysis, "region_table")
                                       \o <<"top_performers", "ai_summary", "ai_trends",
                                            "ai_recommendations", "data_quality",
                                            "statistical_notes">>,
                                   summary |-> summary.res.value,
                                   trends |-> trends.res.value,
                                   recommendations |-> recommendations.res.value]),
                       calls |-> summary.calls \o trends.calls \o recommendations.calls]
         IN  Compose(report_get_llm_insights(stats, llm_provider, "summary", responses[1]),
                     report_get_llm_insights(stats, llm_provider, "trends", responses[2]),
                     report_get_llm_insights(stats, llm_provider, "recommendations",
                                             responses[3]))

(***************************************************************************)
(* VisualizationGenerator (visualizations.py)                              *)
(***************************************************************************)
NpsBins == <<0, 6, 8, 10>>

NpsLabels == <<"Detractors\n(0-6)", "Passives\n(7-8)", "Promoters\n(9-10)">>

\* pd.cut(x, bins, labels) of one cell: the label of the interval
\* (bins[k], bins[k+1]] the value lies in; missing when the cell is
\* missing or the value lies in none, the lowest edge included
cut(cell, bins, labels) ==
    IF IsNA(cell) \/ \A k \in 1..Len(labels) : ~(bins[k] < Val(cell) /\ Val(cell) <= bins[k + 1])
    THEN NA
    ELSE Some(labels[CHOOSE k \in 1..Len(labels) :
                         bins[k] < Val(cell) /\ Val(cell) <= bins[k + 1]])

\* Series.value_counts() of a categorical: the count of each category,
\* missing entries left out
value_counts(categories, labels) ==
    [l \in SeqToSet(labels) |->
        Cardinality({i \in 1..Len(categories) : categories[i] = Some(l)})]

\* create_dashboard(save_path): of the eight charts the NPS panel is kept,
\* with the counts behind its wedges and the call into the statistics
\* calculator; drawing is taken to succeed
create_dashboard(df) ==
    IF HasCol(df, "likelihood_to_recommend")
    THEN LET ltr == Column(df, "likelihood_to_recommend")
             nps_categories == [i \in 1..Len(ltr) |-> cut(ltr[i], NpsBins, NpsLabels)]
             nps_counts == value_counts(nps_categories, NpsLabels)
             nps_score == calculate_nps(df, "likelihood_to_recommend")
         IN  IF IsOk(nps_score) THEN Ok([nps_counts |-> <<nps_counts>>]) ELSE nps_score
    ELSE Ok([nps_counts |-> None])

(***************************************************************************)
(* DataLoader (data_loader.py)                                             *)
(***************************************************************************)
RaisedMsg(e, m) == [status |-> "raised", exc |-> e, msg |-> m]

\* str.rfind(ch), 1-based, 0 when absent
LastIndex(p, ch) ==
    IF \E i \in 1..Len(p) : p[i] = ch
    THEN CHOOSE i \in 1..Len(p) : p[i] = ch /\ \A j \in (i + 1)..Len(p) : p[j] # ch
    ELSE 0

\* os.path.splitext(p)[1]: from the last dot of the last path component,
\* unless that component has only dots before it
splitext(p) ==
    LET sep == LastIndex(p, "/")
        dot == LastIndex(p, ".")
    IN  IF dot > sep /\ \E k \in (sep + 1)..(dot - 1) : p[k] # "."
        THEN SubSeq(p, dot, Len(p))
        ELSE <<>>

\* pd.read_csv(file_path)
load_from_csv(file) ==
    IF file.parses THEN Ok(file.data) ELSE RaisedMsg("ParserError", "Error tokenizing data")

\* pd.read_excel(file_path, sheet_name=0)
load_from_excel(file) ==
    IF file.parses THEN Ok(file.data) ELSE RaisedMsg("ValueError", "Excel file format cannot be determined")

\* position of a column name in a header row
HeaderIndex(header, c) == CHOOSE j \in 1..Len(header) : header[j] = c

\* pd.DataFrame(rows, columns=header) for table = [header] + rows
TableFrame(table) ==
    LET header == table[1]
    IN  [columns |-> SeqToSet(header),
         rows |-> [i \in 1..(Len(table) - 1) |->
                     [c \in SeqToSet(header) |-> Some(table[i + 1][HeaderIndex(header, c)])]]]

\* pd.concat(frames, ignore_index=True): the union of the columns, a cell
\* missing where a frame lacks the column
RECURSIVE ConcatRows(_, _)
ConcatRows(frames, cols) ==
    IF Len(frames) = 0 THEN <<>>
    ELSE [i \in 1..Len(Head(frames).rows) |->
             [c \in cols |-> IF c \in Head(frames).columns
                             THEN Head(frames).rows[i][c] ELSE NA]]
         \o ConcatRows(Tail(frames), cols)

ConcatFrames(frames) ==
    LET cols == UNION {frames[i].columns : i \in 1..Len(frames)}
    IN  [columns |-> cols, rows |-> ConcatRows(frames, cols)]

\* load_from_pdf(file_path)
load_from_pdf(file, pdfplumber) ==
    IF ~pdfplumber THEN RaisedMsg("ImportError", "pdfplumber is required for PDF loading")
    ELSE IF ~file.parses THEN RaisedMsg("PDFSyntaxError", "No /Root object")
    ELSE LET kept == SelectSeq(file.tables, LAMBDA table : Len(table) > 1)
             all_tables == [i \in 1..Len(kept) |-> TableFrame(kept[i])]
         IN  IF Len(all_tables) = 0 THEN RaisedMsg("ValueError", "No tables found in PDF")
             ELSE IF Len(all_tables) = 1 THEN Ok(all_tables[1])
             ELSE Ok(ConcatFrames(all_tables))

ExtCsv == <<".", "c", "s", "v">>
ExtXlsx == <<".", "x", "l", "s", "x">>
ExtXls == <<".", "x", "l", "s">>
ExtPdf == <<".", "p", "d", "f">>

\* variant: the extension is compared as written
load_from_file_nolower(file, pdfplumber) ==
    IF ~file.exists
    THEN [res |-> RaisedMsg("FileNotFoundError", "File not found"), calls |-> <<>>]
    ELSE LET ext == splitext(file.path)
         IN  IF ext = ExtCsv
             THEN [res |-> load_from_csv(file), calls |-> <<"load_from_csv">>]
             ELSE IF ext \in {ExtXlsx, ExtXls}
             THEN [res |-> load_from_excel(file), calls |-> <<"load_from_excel">>]
             ELSE IF ext = ExtPdf
             THEN [res |-> load_from_pdf(file, pdfplumber), calls |-> <<"load_from_pdf">>]
             ELSE [res |-> RaisedMsg("ValueError", "Unsupported file type"), calls |-> <<>>]

\* load_from_file(file_path): the result and the format loaders called
load_from_file(file, pdfplumber) ==
    IF ~file.exists
    THEN [res |-> RaisedMsg("FileNotFoundError", "File not found"), calls |-> <<>>]
    ELSE LET ext == Lower(splitext(file.path))
         IN  IF ext = ExtCsv
             THEN [res |-> load_from_csv(file), calls |-> <<"load_from_csv">>]
             ELSE IF ext \in {ExtXlsx, ExtXls}
             THEN [res |-> load_from_excel(file), calls |-> <<"load_from_excel">>]
             ELSE IF ext = ExtPdf
             THEN [res |-> load_from_pdf(file, pdfplumber), calls |-> <<"load_from_pdf">>]
             ELSE [res |-> RaisedMsg("ValueError", "Unsupported file type"), calls |-> <<>>]

\* a second full row in the shape of generate_sample_data
RowMid ==
    [timestamp |-> Some(2), satisfaction |-> Some(3), product_quality |-> Some(4),
     customer_service |-> Some(4), value_for_money |-> Some(3),
     likelihood_to_recommend |-> Some(7), region |-> Some("South"),
     age_group |-> Some("26-35"), feedback |-> Some("Could be better")]

\* pd.DataFrame(generate_sample_data()): every column, no missing cell
\* (two records stand for the 150 generated ones)
generate_sample_data == [columns |-> OptionalColumns, rows |-> <<RowHigh, RowMid>>]

\* load_data(data): data is None, a frame or a file path
load_data(data, pdfplumber) ==
    IF data.kind = "none" THEN Ok(generate_sample_data)
    ELSE IF data.kind = "frame" THEN Ok(data.frame)
    ELSE load_from_file(data.file, pdfplumber).res

(***************************************************************************)
(* SurveyAnalyzer (analyzer.py)                                            *)
(***************************************************************************)
\* the clock in ticks of 1/TicksPerSecond second, the directories under
\* Config.BASE_OUTPUT_DIR and the output directory of each construction
TicksPerSecond == 2

Started == [now |-> 0, dirs |-> {}, runs |-> <<>>]

\* datetime.now().strftime("%Y%m%d_%H%M%S"): the date and time of day down
\* to the whole second
strftime(now) == now \div TicksPerSecond

\* os.makedirs(output_dir, exist_ok=True)
makedirs(dirs, output_dir) == dirs \cup {output_dir}

\* Config.get_timestamped_output_dir(): the directory and the directories
\* there are afterwards
get_timestamped_output_dir(now, dirs) ==
    LET output_dir == <<"analysis", strftime(now)>>
    IN  [output_dir |-> output_dir, dirs |-> makedirs(dirs, output_dir)]

\* SurveyAnalyzer.__init__ 37-42: the output directory of the new object
SetupOutputDir(output_dir, host) ==
    LET Obtained(o, explicit) ==
            [host EXCEPT !.dirs = o.dirs,
                         !.runs = Append(@, [explicit |-> explicit,
                                             output_dir |-> o.output_dir,
                                             existed |-> o.output_dir \in host.dirs])]
    IN  IF output_dir = None
        THEN Obtained(get_timestamped_output_dir(host.now, host.dirs), FALSE)
        ELSE Obtained([output_dir |-> output_dir[1],
                       dirs |-> makedirs(host.dirs, output_dir[1])], TRUE)

\* SurveyAnalyzer.__init__(data, llm_provider, output_dir): the fields of
\* the new object, or the exception that leaves no object behind, and the
\* directories afterwards
SurveyAnalyzer(data, llm_provider, output_dir, environment, host) ==
    LET loaded == load_data(data, environment.pdfplumber)
        provider == IF llm_provider # None THEN Ok(llm_provider[1])
                    ELSE get_llm_provider(environment)
    IN  IF ~IsOk(loaded) THEN [res |-> loaded, host |-> host]
        ELSE IF ~IsOk(provider)
        THEN [res |-> provider, host |-> SetupOutputDir(output_dir, host)]
        ELSE [res |-> Ok([df |-> loaded.value, llm_provider |-> provider.value,
                          stats |-> None]),
              host |-> SetupOutputDir(output_dir, host)]

\* the pandas releases that matter to a statistics computation: none
\* when the cache is filled
PandasChoices(stats) == IF stats = None THEN BOOLEAN ELSE {FALSE}

\* variant: the cache is filled from the complete records only
EnsureStats_dropna(df, stats, allna_raises) ==
    IF stats = None THEN calculate_comprehensive_stats_dropna(df, allna_raises)
    ELSE Ok(stats[1])

\* "if self.stats is None: self.calculate_statistics()"
EnsureStats(df, stats, allna_raises) ==
    IF stats = None THEN calculate_comprehensive_stats(df, allna_raises) ELSE Ok(stats[1])

\* SurveyAnalyzer.create_visualizations()
create_visualizations(df) ==
    LET Saved(fig) == IF IsOk(fig) THEN Ok("survey_visualizations.png") ELSE fig
    IN  Saved(create_dashboard(df))

\* SurveyAnalyzer.get_llm_insights(insight_type): result, cache afterwards
\* and requests sent
get_llm_insights(df, stats, llm_provider, allna_raises, insight_type, response) ==
    LET Answer(s, r) == [res |-> r.res, stats |-> <<s.value>>, calls |-> r.calls]
        Insights(s) ==
            IF ~IsOk(s) THEN [res |-> s, stats |-> stats, calls |-> <<>>]
            ELSE Answer(s, report_get_llm_insights(s.value, llm_provider, insight_type,
                                                   response))
    IN  Insights(EnsureStats(df, stats, allna_raises))

\* SurveyAnalyzer.generate_report() up to the hand-over to the report
\* generator: the sentiment summary and segment tables (or the exception
\* raised on the way), the cache and the dataset afterwards
PrepareReport(df, stats, allna_raises) ==
    LET Segment(after, segment_column) ==
            IF HasCol(after, segment_column)
            THEN <<analyze_by_segment(after, segment_column).value>> ELSE None
        Prepared(s, sentiment, after) ==
            IF ~IsOk(s) THEN [res |-> s, stats |-> stats, df |-> df]
            ELSE IF ~IsOk(sentiment)
            THEN [res |-> sentiment, stats |-> <<s.value>>, df |-> after]
            ELSE [res |-> Ok([sentiment |-> sentiment.value,
                              age_analysis |-> Segment(after, "age_group"),
                              region_analysis |-> Segment(after, "region")]),
                  stats |-> <<s.value>>, df |-> after]
    IN  Prepared(EnsureStats(df, stats, allna_raises), get_sentiment_analysis(df),
                 SentimentCallerFrame(df))

\* SurveyAnalyzer.generate_report(), the hand-over:
\* report_gen.generate_report(save_path, sentiment, age_analysis, region_analysis)
generate_report(prepared, llm_provider, responses) ==
    IF ~IsOk(prepared.res) THEN [res |-> prepared.res, calls |-> <<>>]
    ELSE report_generate_report(prepared.stats[1], llm_provider,
                                prepared.res.value.sentiment,
                                prepared.res.value.age_analysis,
                                prepared.res.value.region_analysis, responses)

\* what generate_report hands to the report generator: sentiment,
\* age_analysis and region_analysis, nothing when it fails before
Handed(prepared) == IF IsOk(prepared.res) THEN prepared.res.value ELSE None

\* variant: the statistics file is written whether or not there is a cache
export_data_always(df, stats) ==
    Ok((IF HasCol(df, "age_group") THEN <<"age_group_analysis.csv">> ELSE <<>>)
       \o (IF HasCol(df, "region") THEN <<"regional_analysis.csv">> ELSE <<>>)
       \o <<"survey_raw_data.csv", "statistics.json">>)

\* SurveyAnalyzer.export_data(): the list of files written, in order
export_data(df, stats) ==
    Ok((IF HasCol(df, "age_group") THEN <<"age_group_analysis.csv">> ELSE <<>>)
       \o (IF HasCol(df, "region") THEN <<"regional_analysis.csv">> ELSE <<>>)
       \o <<"survey_raw_data.csv">>
       \o (IF stats # None THEN <<"statistics.json">> ELSE <<>>))

ExplanationErrorText ==
    "[Error: Could not generate explanation. Check your Gemini API key in api_key.py]"

\* SurveyAnalyzer.generate_output_explanation(output_files): the file
\* written with its explanation text, cache afterwards and requests sent
generate_output_explanation(df, stats, llm_provider, allna_raises, response) ==
    LET Explain(s, g) ==
            IF ~IsOk(s) THEN [res |-> s, stats |-> stats, calls |-> <<>>]
            ELSE IF ~IsOk(g.res) THEN [res |-> g.res, stats |-> <<s.value>>, calls |-> g.calls]
            ELSE [res |-> Ok([file |-> "output_explanation.txt",
                              explanation |-> IF Truthy(g.res.value) THEN g.res.value[1]
                                              ELSE ExplanationErrorText]),
                  stats |-> <<s.value>>, calls |-> g.calls]
    IN  Explain(EnsureStats(df, stats, allna_raises),
                generate(llm_provider, "explanation", response))

(***************************************************************************)
(* main.py                                                                 *)
(***************************************************************************)
\* check_packages(): (all_ok, gemini_ok and api_key is not None)
check_packages(environment) == <<environment.core, environment.lib /\ environment.key>>

(***************************************************************************)
(* Explored environments, files and runs                                   *)
(***************************************************************************)
NoFrame == [columns |-> {}, rows |-> <<>>]

\* every package installed, a key in api_key.py, Gemini initialises
ReadyEnv ==
    [core |-> TRUE, lib |-> TRUE, key |-> TRUE, init_ok |-> TRUE, pdfplumber |-> TRUE,
     argv |-> None]

\* the provider states: library missing, key missing, initialisation
\* failed, ready
ProviderEnvs ==
    {[ReadyEnv EXCEPT !.lib = FALSE], [ReadyEnv EXCEPT !.key = FALSE],
     [ReadyEnv EXCEPT !.init_ok = FALSE], ReadyEnv}

EmptyLtr == [columns |-> {"likelihood_to_recommend"}, rows |-> <<>>]
EmptyFeedback == [columns |-> {"feedback"}, rows |-> <<>>]
EmptySegment == [columns |-> {"region", "satisfaction"}, rows |-> <<>>]

\* a region whose satisfaction is missing throughout, with feedback
UnratedRegion ==
    [columns |-> {"region", "satisfaction", "likelihood_to_recommend", "feedback"},
     rows |-> <<[region |-> Some("North"), satisfaction |-> NA,
                 likelihood_to_recommend |-> Some(9), feedback |-> Some("Great great bad")],
                [region |-> Some("North"), satisfaction |-> NA,
                 likelihood_to_recommend |-> NA, feedback |-> NA]>>]

\* two regions with the same mean satisfaction
TiedRegions ==
    [columns |-> {"region", "satisfaction", "likelihood_to_recommend"},
     rows |-> <<[region |-> Some("North"), satisfaction |-> Some(5),
                 likelihood_to_recommend |-> Some(10)],
                [region |-> Some("East"), satisfaction |-> Some(5),
                 likelihood_to_recommend |-> Some(7)]>>]

\* a region column without a single region name
UnnamedRegion ==
    [columns |-> {"region", "likelihood_to_recommend"},
     rows |-> <<[region |-> NA, likelihood_to_recommend |-> Some(9)]>>]

RunDatasets ==
    {generate_sample_data, Scenario1, Scenario3, EmptyLtr, EmptyFeedback, UnratedRegion,
     TiedRegions, UnnamedRegion}

\* tables as pdfplumber extracts them: rows of cell texts, header first
PdfTables ==
    {<<>>,
     <<<<"satisfaction">>>>,
     <<<<"satisfaction">>, <<"5">>>>,
     <<<<"region">>, <<"North">>, <<"South">>>>}

MaxPdfTables == 2

CsvPaths == {<<"d", ".", "c", "s", "v">>, <<"D", ".", "C", "S", "V">>,
             <<"a", ".", "b", "/", "d", ".", "C", "s", "v">>}
ExcelPaths == {<<"d", ".", "x", "l", "s", "x">>, <<"d", ".", "X", "L", "S">>,
               <<"d", ".", "x", "l", "s">>}
PdfPaths == {<<"r", ".", "p", "d", "f">>, <<"R", ".", "P", "D", "F">>}
OtherPaths == {<<"n", ".", "t", "x", "t">>, <<"d", "a", "t", "a">>,
               <<".", "c", "s", "v">>, <<"a", ".", "c", "s", "v", "/", "d">>,
               <<"d", ".", "c", "s", "v", ".", "b", "a", "k">>}

Files ==
    {[path |-> p, exists |-> e, parses |-> ok, tables |-> <<>>, data |-> d] :
        p \in CsvPaths \cup ExcelPaths \cup OtherPaths, e \in BOOLEAN, ok \in BOOLEAN,
        d \in {Scenario1, Scenario3}}
    \cup
    {[path |-> p, exists |-> e, parses |-> ok, tables |-> ts, data |-> NoFrame] :
        p \in PdfPaths, e \in BOOLEAN, ok \in BOOLEAN,
        ts \in SeqsUpTo(PdfTables, MaxPdfTables)}

\* the files main() is started on
MainFiles ==
    {[path |-> <<"d", ".", "c", "s", "v">>, exists |-> TRUE, parses |-> TRUE,
      tables |-> <<>>, data |-> d] : d \in {Scenario1, Scenario3, EmptySegment}}
    \cup
    {[path |-> p, exists |-> e, parses |-> TRUE, tables |-> <<>>, data |-> Scenario1] :
        p \in {<<"d", ".", "c", "s", "v">>, <<"n", ".", "t", "x", "t">>}, e \in BOOLEAN}

MainEnvs ==
    {[core |-> c, lib |-> l, key |-> k, init_ok |-> i, pdfplumber |-> TRUE, argv |-> a] :
        c \in BOOLEAN, l \in BOOLEAN, k \in BOOLEAN, i \in BOOLEAN,
        a \in {None} \cup {<<f>> : f \in MainFiles}}

\* sys.argv[1] or None, as SurveyAnalyzer(data=data_source) receives it
DataSource(argv) ==
    IF argv = None THEN [kind |-> "none"] ELSE [kind |-> "path", file |-> argv[1]]

(***************************************************************************)
(* The analyzer object, its provider and the run around it                 *)
(*   df, stats, llm  fields of the SurveyAnalyzer object                   *)
(*   ret             the last call and its result                          *)
(*   calls           what that call asked of its collaborators: requests   *)
(*                   sent to the model, format loaders                     *)
(*   env             installed packages, api key, command line             *)
(*   pc              position of main()                                    *)
(*   history         the first statistics record returned and the          *)
(*                   operations run since (kept only where recorded)       *)
(*   fs              the clock, the directories under ./outputs and the    *)
(*                   output directory each construction obtained           *)
(***************************************************************************)
VARIABLES df, stats, ret, llm, calls, env, pc, history, fs

vars == <<df, stats, ret, llm, calls, env, pc, history, fs>>

SegmentArgs == {"region", "age_group"}

BetweenOps == {"analyze_by_segment", "get_sentiment_analysis", "generate_report", "export_data"}

NoHistory == [on |-> FALSE, first |-> None, between |-> {}]

NoteCall(h, op, res) ==
    IF ~h.on THEN h
    ELSE IF h.first = None
    THEN IF op = "calculate_statistics" /\ IsOk(res) THEN [h EXCEPT !.first = <<res.value>>]
         ELSE h
    ELSE IF op \in BetweenOps THEN [h EXCEPT !.between = @ \cup {op}]
    ELSE h

\* SurveyAnalyzer.__init__: the loaded dataset, an empty statistics cache
Init ==
    /\ df \in Datasets
    /\ stats = None
    /\ ret = [op |-> "init", arg |-> "", res |-> Ok(None)]
    /\ llm = GeminiProvider(ReadyEnv)
    /\ calls = <<>>
    /\ env = ReadyEnv
    /\ pc = "api"
    /\ history = NoHistory
    /\ fs = Started

\* SurveyAnalyzer.calculate_statistics
CalculateStatistics ==
    \E allna_raises \in BOOLEAN :
        LET r == calculate_comprehensive_stats(df, allna_raises)
        IN  /\ pc = "api"
            /\ stats' = IF IsOk(r) THEN <<r.value>> ELSE stats
            /\ ret' = [op |-> "calculate_statistics", arg |-> "", res |-> r]
            /\ calls' = <<>>
            /\ history' = NoteCall(history, "calculate_statistics", r)
            /\ UNCHANGED <<df, llm, env, pc, fs>>

\* SurveyAnalyzer.analyze_by_segment
AnalyzeBySegment ==
    \E seg \in SegmentArgs :
        /\ pc = "api"
        /\ ret' = [op |-> "analyze_by_segment", arg |-> seg, res |-> analyze_by_segment(df, seg)]
        /\ calls' = <<>>
        /\ history' = NoteCall(history, "analyze_by_segment", ret'.res)
        /\ UNCHANGED <<df, stats, llm, env, pc, fs>>

\* StatisticsCalculator.calculate_nps(df), as the dashboard calls it
CalculateNPS ==
    /\ pc = "api"
    /\ ret' = [op |-> "calculate_nps", arg |-> "",
               res |-> calculate_nps(df, "likelihood_to_recommend")]
    /\ calls' = <<>>
    /\ UNCHANGED <<df, stats, llm, env, pc, history, fs>>

\* StatisticsCalculator._calculate_completion_rate(df)
CalculateCompletionRate ==
    /\ pc = "api"
    /\ ret' = [op |-> "calculate_completion_rate", arg |-> "",
               res |-> Ok(calculate_completion_rate(df))]
    /\ calls' = <<>>
    /\ UNCHANGED <<df, stats, llm, env, pc, history, fs>>

\* SurveyAnalyzer.get_sentiment_analysis
GetSentimentAnalysis ==
    /\ pc = "api"
    /\ ret' = [op |-> "get_sentiment_analysis", arg |-> "", res |-> get_sentiment_analysis(df)]
    /\ df' = SentimentCallerFrame(df)
    /\ calls' = <<>>
    /\ history' = NoteCall(history, "get_sentiment_analysis", ret'.res)
    /\ UNCHANGED <<stats, llm, env, pc, fs>>

\* VisualizationGenerator(df).create_dashboard()
CreateDashboard ==
    /\ pc = "api"
    /\ ret' = [op |-> "create_dashboard", arg |-> "", res |-> create_dashboard(df)]
    /\ calls' = <<>>
    /\ UNCHANGED <<df, stats, llm, env, pc, history, fs>>

Next ==
    \/ CalculateStatistics
    \/ GetSentimentAnalysis
    \/ AnalyzeBySegment
    \/ CalculateNPS
    \/ CalculateCompletionRate
    \/ CreateDashboard

Spec == Init /\ [][Next]_vars

(***************************************************************************)
(* An analyzer built around a provider in any of its states                *)
(***************************************************************************)
\* SurveyAnalyzer(data=frame, llm_provider=GeminiProvider())
InitRun ==
    \E d \in RunDatasets, e \in ProviderEnvs :
        \E a \in {SurveyAnalyzer([kind |-> "frame", frame |-> d], <<GeminiProvider(e)>>, None, e, Started)} :
            /\ df = a.res.value.df
            /\ stats = a.res.value.stats
            /\ llm = a.res.value.llm_provider
            /\ env = e
            /\ ret = [op |-> "init", arg |-> "", res |-> Ok(None)]
            /\ calls = <<>>
            /\ pc = "api"
            /\ history = [NoHistory EXCEPT !.on = TRUE]
            /\ fs = a.host

\* SurveyAnalyzer.get_llm_insights
GetLlmInsights ==
    \E allna_raises \in PandasChoices(stats), insight_type \in InsightTypes,
       response \in ResponsesTo(llm) :
        \E r \in {get_llm_insights(df, stats, llm, allna_raises, insight_type, response)} :
            /\ pc = "api"
            /\ ret' = [op |-> "get_llm_insights", arg |-> insight_type, res |-> r.res]
            /\ stats' = r.stats
            /\ calls' = r.calls
            /\ history' = NoteCall(history, "get_llm_insights", r.res)
            /\ UNCHANGED <<df, llm, env, pc, fs>>

\* SurveyAnalyzer.generate_report
GenerateReport ==
    \E allna_raises \in PandasChoices(stats) :
      \E prepared \in {PrepareReport(df, stats, allna_raises)} :
        \E responses \in [1..3 -> ResponsesTo(llm)] :
          \E r \in {generate_report(prepared, llm, responses)} :
            /\ pc = "api"
            /\ ret' = [op |-> "generate_report", arg |-> Handed(prepared), res |-> r.res]
            /\ stats' = prepared.stats
            /\ df' = prepared.df
            /\ calls' = r.calls
            /\ history' = NoteCall(history, "generate_report", r.res)
            /\ UNCHANGED <<llm, env, pc, fs>>

\* SurveyAnalyzer.export_data
ExportData ==
    /\ pc = "api"
    /\ ret' = [op |-> "export_data", arg |-> "", res |-> export_data(df, stats)]
    /\ calls' = <<>>
    /\ history' = NoteCall(history, "export_data", ret'.res)
    /\ UNCHANGED <<df, stats, llm, env, pc, fs>>

\* SurveyAnalyzer.generate_output_explanation
GenerateOutputExplanation ==
    \E allna_raises \in PandasChoices(stats), response \in ResponsesTo(llm) :
        \E r \in {generate_output_explanation(df, stats, llm, allna_raises, response)} :
            /\ pc = "api"
            /\ ret' = [op |-> "generate_output_explanation", arg |-> "", res |-> r.res]
            /\ stats' = r.stats
            /\ calls' = r.calls
            /\ history' = NoteCall(history, "generate_output_explanation", r.res)
            /\ UNCHANGED <<df, llm, env, pc, fs>>

\* llm_provider.generate(prompt), called on the analyzer's provider
ProviderGenerate ==
    \E response \in ResponsesTo(llm) :
        \E g \in {generate(llm, "prompt", response)} :
            /\ pc = "api"
            /\ ret' = [op |-> "generate", arg |-> "prompt", res |-> g.res]
            /\ calls' = g.calls
            /\ UNCHANGED <<df, stats, llm, env, pc, history, fs>>

NextRun ==
    \/ CalculateStatistics
    \/ AnalyzeBySegment
    \/ GetSentimentAnalysis
    \/ GetLlmInsights
    \/ GenerateReport
    \/ ExportData
    \/ GenerateOutputExplanation
    \/ ProviderGenerate

SpecRun == InitRun /\ [][NextRun]_vars

(***************************************************************************)
(* main(): one run of the command-line program                             *)
(***************************************************************************)
InitMain ==
    /\ env \in MainEnvs
    /\ df = NoFrame
    /\ stats = None
    /\ llm = BaseLLMProvider
    /\ ret = [op |-> "init", arg |-> "", res |-> Ok(None)]
    /\ calls = <<>>
    /\ pc = "start"
    /\ history = NoHistory
    /\ fs = Started

\* main.py 85-104: package check, Gemini check, existence of sys.argv[1]
MainStart ==
    LET checked == check_packages(env)
    IN  /\ pc = "start"
        /\ ret' = [op |-> "check_packages", arg |-> "", res |-> Ok(checked)]
        /\ pc' = IF ~checked[1] THEN "exit1"
                 ELSE IF ~checked[2] THEN "exit1"
                 ELSE IF env.argv # None /\ ~env.argv[1].exists THEN "exit1"
                 ELSE "checked"
        /\ UNCHANGED <<df, stats, llm, calls, env, history, fs>>

\* main.py 114: analyzer = SurveyAnalyzer(data=data_source); an exception
\* leaves main() and ends the process with status 1
MainConstruct ==
    \E a \in {SurveyAnalyzer(DataSource(env.argv), None, None, env, fs)} :
        /\ pc = "checked"
        /\ ret' = [op |-> "SurveyAnalyzer", arg |-> "",
                   res |-> IF IsOk(a.res) THEN Ok(None) ELSE a.res]
        /\ df' = IF IsOk(a.res) THEN a.res.value.df ELSE df
        /\ llm' = IF IsOk(a.res) THEN a.res.value.llm_provider ELSE llm
        /\ stats' = IF IsOk(a.res) THEN a.res.value.stats ELSE stats
        /\ fs' = a.host
        /\ pc' = IF IsOk(a.res) THEN "constructed" ELSE "exit1"
        /\ UNCHANGED <<calls, env, history>>

\* main.py 117-123: step 1, analyzer.calculate_statistics()
MainStatistics ==
    \E allna_raises \in BOOLEAN :
        LET r == calculate_comprehensive_stats(df, allna_raises)
        IN  /\ pc = "constructed"
            /\ stats' = IF IsOk(r) THEN <<r.value>> ELSE stats
            /\ ret' = [op |-> "calculate_statistics", arg |-> "", res |-> r]
            /\ pc' = IF IsOk(r) THEN "aggregated" ELSE "exit1"
            /\ UNCHANGED <<df, llm, calls, env, history, fs>>

\* main.py 125-131: step 2, analyzer.create_visualizations()
MainVisualizations ==
    LET r == create_visualizations(df)
    IN  /\ pc = "aggregated"
        /\ ret' = [op |-> "create_visualizations", arg |-> "", res |-> r]
        /\ pc' = IF IsOk(r) THEN "rendered" ELSE "exit1"
        /\ UNCHANGED <<df, stats, llm, calls, env, history, fs>>

\* main.py 133-140: step 3, analyzer.generate_report()
MainReport ==
    \E allna_raises \in PandasChoices(stats) :
      \E prepared \in {PrepareReport(df, stats, allna_raises)} :
        \E responses \in [1..3 -> ResponsesTo(llm)] :
          \E r \in {generate_report(prepared, llm, responses)} :
            /\ pc = "rendered"
            /\ ret' = [op |-> "generate_report", arg |-> Handed(prepared), res |-> r.res]
            /\ stats' = prepared.stats
            /\ df' = prepared.df
            /\ calls' = r.calls
            /\ pc' = IF IsOk(r.res) THEN "reported" ELSE "exit1"
            /\ UNCHANGED <<llm, env, history, fs>>

\* main.py 142-148: step 4, analyzer.export_data()
MainExport ==
    /\ pc = "reported"
    /\ ret' = [op |-> "export_data", arg |-> "", res |-> export_data(df, stats)]
    /\ calls' = <<>>
    /\ pc' = "exported"
    /\ UNCHANGED <<df, stats, llm, env, history, fs>>

\* main.py 150-156: step 5, analyzer.generate_output_explanation(files)
MainExplanation ==
    \E allna_raises \in PandasChoices(stats), response \in ResponsesTo(llm) :
        \E r \in {generate_output_explanation(df, stats, llm, allna_raises, response)} :
            /\ pc = "exported"
            /\ ret' = [op |-> "generate_output_explanation", arg |-> "", res |-> r.res]
            /\ stats' = r.stats
            /\ calls' = r.calls
            /\ pc' = IF IsOk(r.res) THEN "done" ELSE "exit1"
            /\ UNCHANGED <<df, llm, env, history, fs>>

NextMain ==
    \/ MainStart
    \/ MainConstruct
    \/ MainStatistics
    \/ MainVisualizations
    \/ MainReport
    \/ MainExport
    \/ MainExplanation

SpecMain == InitMain /\ [][NextMain]_vars

(***************************************************************************)
(* The program either way: the analyzer driven by a caller of its own, or  *)
(* driven by main()                                                        *)
(***************************************************************************)
InitProgram ==
    \/ InitRun
    \/ InitMain

NextProgram ==
    \/ NextRun
    \/ NextMain

SpecProgram == InitProgram /\ [][NextProgram]_vars

(***************************************************************************)
(* DataLoader.load_from_file on the explored files                         *)
(***************************************************************************)
InitLoad ==
    /\ env \in {[ReadyEnv EXCEPT !.pdfplumber = b] : b \in BOOLEAN}
    /\ df = NoFrame
    /\ stats = None
    /\ llm = BaseLLMProvider
    /\ ret = [op |-> "init", arg |-> "", res |-> Ok(None)]
    /\ calls = <<>>
    /\ pc = "api"
    /\ history = NoHistory
    /\ fs = Started

\* DataLoader.load_from_file(file_path)
LoadFromFile ==
    \E file \in Files :
        \E r \in {load_from_file(file, env.pdfplumber)} :
            /\ ret' = [op |-> "load_from_file", arg |-> file, res |-> r.res]
            /\ calls' = r.calls
            /\ UNCHANGED <<df, stats, llm, env, pc, history, fs>>

NextLoad == LoadFromFile

SpecLoad == InitLoad /\ [][NextLoad]_vars

(***************************************************************************)
(* Analyzers constructed one after another while the clock runs            *)
(***************************************************************************)
MaxClock == 4
MaxRuns == 3

\* a directory a caller passes as output_dir
ExplicitDirs == {<<"custom", 0>>}

InitDirs ==
    /\ df = NoFrame
    /\ stats = None
    /\ llm = BaseLLMProvider
    /\ env = ReadyEnv
    /\ ret = [op |-> "init", arg |-> "", res |-> Ok(None)]
    /\ calls = <<>>
    /\ pc = "api"
    /\ history = NoHistory
    /\ fs = Started

\* time passes
Tick ==
    /\ fs.now < MaxClock
    /\ fs' = [fs EXCEPT !.now = @ + 1]
    /\ UNCHANGED <<df, stats, ret, llm, calls, env, pc, history>>

\* SurveyAnalyzer(data=frame, llm_provider=GeminiProvider(), output_dir=...)
Construct ==
    \E d \in {generate_sample_data, Scenario1}, output_dir \in {None} \cup {<<o>> : o \in ExplicitDirs} :
        \E a \in {SurveyAnalyzer([kind |-> "frame", frame |-> d], <<GeminiProvider(env)>>, output_dir, env, fs)} :
            /\ Len(fs.runs) < MaxRuns
            /\ df' = a.res.value.df
            /\ stats' = a.res.value.stats
            /\ llm' = a.res.value.llm_provider
            /\ fs' = a.host
            /\ ret' = [op |-> "SurveyAnalyzer", arg |-> output_dir, res |-> Ok(None)]
            /\ UNCHANGED <<calls, env, pc, history>>

NextDirs ==
    \/ Tick
    \/ Construct

SpecDirs == InitDirs /\ [][NextDirs]_vars

(***************************************************************************)
(* Properties                                                              *)
(***************************************************************************)
Rows == 1..DfLen(df)
Cell(i, c) == df.rows[i][c]
Present_(c) == c \in df.columns
NoCellMissing == \A i \in Rows : \A c \in df.columns : Cell(i, c) # NA
MissingCount == Cardinality({p \in Rows \X df.columns : Cell(p[1], p[2]) = NA})
Returned(op) == ret.op = op /\ ret.res.status = "ok"
Zero == [n |-> 0, d |-> 1]
Hundred == [n |-> 100, d |-> 1]

\* C1: calculate_comprehensive_stats returns a statistics record for every
\* non-empty dataset whatever optional columns are absent (here: datasets
\* without a missing cell), and reports nps_score, promoters, passives and
\* detractors as zero when likelihood_to_recommend is absent.
C1_NeverFailsOnMissingColumn ==
    (ret.op = "calculate_statistics" /\ DfLen(df) > 0 /\ NoCellMissing) =>
        /\ ret.res.status = "ok"
        /\ ~Present_("likelihood_to_recommend") =>
              /\ ret.res.value.nps_score = Zero
              /\ ret.res.value.promoters = 0
              /\ ret.res.value.passives = 0
              /\ ret.res.value.detractors = 0

\* C2: on a dataset with zero records calculate_comprehensive_stats returns
\* normally, whatever columns the dataset declares, with total_responses = 0,
\* nps_score = 0.0 and best_region = "N/A".
C2_EmptyDatasetReturnsPlaceholders ==
    (ret.op = "calculate_statistics" /\ DfLen(df) = 0) =>
        /\ ret.res.status = "ok"
        /\ ret.res.value.total_responses = 0
        /\ ret.res.value.nps_score = Zero
        /\ ret.res.value.best_region = "N/A"

\* C3: the completion rate of a dataset with zero records is 100.0.
C3_EmptyCompletionRateIs100 ==
    (ret.op = "calculate_completion_rate" /\ DfLen(df) = 0) =>
        ret.res.value = Hundred

\* C4: with at least one record and one column, completion_rate equals
\* 100 - missing_cells / (rows * columns) * 100, lies in [0, 100], and is
\* 100.0 if and only if no cell is missing.
C4_CompletionRateFormula ==
    (ret.op = "calculate_completion_rate" /\ DfLen(df) > 0 /\ df.columns # {}) =>
        LET r == ret.res.value
            cells == DfLen(df) * Cardinality(df.columns)
        IN  /\ r.d > 0
            /\ r.n * cells = r.d * (100 * cells - 100 * MissingCount)
            /\ 0 <= r.n /\ r.n <= 100 * r.d
            /\ (r = Hundred) <=> NoCellMissing

C4_Witness ==
    /\ ret.op = "calculate_completion_rate"
    /\ DfLen(df) > 0
    /\ \E i \in Rows : \E c \in df.columns : Cell(i, c) = NA
    /\ \E i \in Rows : \E c \in df.columns : Cell(i, c) # NA
    /\ ret.res.value.n > 0

Score(i) == Cell(i, "likelihood_to_recommend")
PromoterRows == {i \in Rows : Score(i) # NA /\ Score(i)[1] >= 9}
PassiveRows == {i \in Rows : Score(i) # NA /\ Score(i)[1] >= 7 /\ Score(i)[1] <= 8}
DetractorRows == {i \in Rows : Score(i) # NA /\ Score(i)[1] <= 6}

\* C5: on a dataset that has the recommendation column calculate_nps returns
\* a value in [-100, 100], also with missing or out-of-scale scores, and
\* exactly 0.0 on zero records.
C5_NpsRange ==
    (ret.op = "calculate_nps" /\ Present_("likelihood_to_recommend")) =>
        /\ ret.res.status = "ok"
        /\ ret.res.value.d > 0
        /\ -100 * ret.res.value.d <= ret.res.value.n
        /\ ret.res.value.n <= 100 * ret.res.value.d
        /\ DfLen(df) = 0 => ret.res.value = Zero

C5_Witness ==
    /\ Returned("calculate_nps")
    /\ \E i \in Rows : Score(i) = NA
    /\ \E i \in Rows : Score(i) = <<11>>
    /\ ret.res.value.n # 0

\* the NPS a call reports: the return value of calculate_nps, or the
\* nps_score field of the statistics record
ReportedNps ==
    IF ret.op = "calculate_nps" THEN ret.res.value ELSE ret.res.value.nps_score

\* C6: on a non-empty dataset NPS = (promoters - detractors) / total * 100
\* with promoters the records scoring >= 9, detractors those scoring <= 6 and
\* total all records; the scores 9,9,9,8,8,7,6,5,3,2 give 3 promoters,
\* 3 passives, 4 detractors and an NPS of -10.0.
C6_NpsFormula ==
    /\ ( /\ Returned("calculate_nps") \/ Returned("calculate_statistics")
         /\ DfLen(df) > 0 ) =>
            /\ ReportedNps.d > 0
            /\ ReportedNps.n * DfLen(df) =
                   ReportedNps.d * 100 * (Cardinality(PromoterRows) - Cardinality(DetractorRows))
    /\ (ret.op = "calculate_statistics" /\ df = Scenario1) =>
            /\ ret.res.status = "ok"
            /\ ret.res.value.promoters = 3
            /\ ret.res.value.passives = 3
            /\ ret.res.value.detractors = 4
            /\ ret.res.value.nps_score = [n |-> -10, d |-> 1]

C6_Witness ==
    /\ Returned("calculate_statistics")
    /\ df = Scenario1
    /\ ret.res.value.nps_score.n < 0

StdZero == [sq |-> Zero]

\* C7: whenever calculate_comprehensive_stats returns, every metric whose
\* source column is absent holds its default: 0.0 for the means, standard
\* deviations and percentiles, "N/A" for date_range, and ("N/A", 0.0) for the
\* best region / top age group when the segment or the satisfaction column
\* is absent.
C7_AbsentColumnDefaults ==
    Returned("calculate_statistics") =>
        LET v == ret.res.value
        IN  /\ ~Present_("satisfaction") =>
                  /\ v.avg_satisfaction = Zero /\ v.std_satisfaction = StdZero
                  /\ v.satisfaction_p25 = Zero /\ v.satisfaction_median = Zero
                  /\ v.satisfaction_p75 = Zero
            /\ ~Present_("product_quality") =>
                  v.avg_product_quality = Zero /\ v.std_product_quality = StdZero
            /\ ~Present_("customer_service") =>
                  v.avg_customer_service = Zero /\ v.std_customer_service = StdZero
            /\ ~Present_("value_for_money") => v.avg_value = Zero
            /\ ~Present_("likelihood_to_recommend") => v.avg_nps = Zero
            /\ ~Present_("timestamp") => v.date_range = <<"N/A">>
            /\ (~Present_("region") \/ ~Present_("satisfaction")) =>
                  v.best_region = "N/A" /\ v.best_region_score = Zero
            /\ (~Present_("age_group") \/ ~Present_("satisfaction")) =>
                  v.top_age_group = "N/A" /\ v.top_age_score = Zero

C7_Witness ==
    /\ Returned("calculate_statistics")
    /\ DfLen(df) > 0
    /\ df.columns = {"likelihood_to_recommend", "region"}
    /\ ret.res.value.best_region = "N/A"
    /\ ret.res.value.avg_satisfaction = Zero

\* rows of a segment value, and the mean satisfaction over those of them
\* that have a satisfaction value
SegRowsOf(seg, k) == {i \in Rows : Cell(i, seg) = <<k>>}
SegValues(seg) == {k \in SeqToSet(KeyOrder) : SegRowsOf(seg, k) # {}}
RatedRows(seg, k) == {i \in SegRowsOf(seg, k) : Cell(i, "satisfaction") # NA}
RECURSIVE SatSum(_)
SatSum(S) ==
    IF S = {} THEN 0
    ELSE LET i == CHOOSE j \in S : TRUE IN Cell(i, "satisfaction")[1] + SatSum(S \ {i})
\* mean(a) <= mean(b) for two segment values with rated rows
MeanLe(seg, a, b) ==
    SatSum(RatedRows(seg, a)) * Cardinality(RatedRows(seg, b))
        <= SatSum(RatedRows(seg, b)) * Cardinality(RatedRows(seg, a))
KeyRank(k) == CHOOSE j \in 1..Len(KeyOrder) : KeyOrder[j] = k

IsBestSegment(seg, name, score) ==
    /\ name \in SegValues(seg)
    /\ RatedRows(seg, name) # {}
    /\ score.d > 0
    /\ score.n * Cardinality(RatedRows(seg, name)) = score.d * SatSum(RatedRows(seg, name))
    /\ \A k \in SegValues(seg) : RatedRows(seg, k) # {} =>
          /\ MeanLe(seg, k, name)
          /\ MeanLe(seg, name, k) => KeyRank(name) <= KeyRank(k)

\* C8: with region and satisfaction columns and at least one record,
\* best_region is a region of maximal mean satisfaction, the first such in
\* sorted key order, and best_region_score is that mean; likewise for
\* age_group with top_age_group / top_age_score.
C8_BestSegmentIsArgMax ==
    (ret.op = "calculate_statistics" /\ DfLen(df) > 0
        /\ Present_("satisfaction") /\ Present_("likelihood_to_recommend")) =>
        /\ Present_("region") =>
              /\ ret.res.status = "ok"
              /\ IsBestSegment("region", ret.res.value.best_region,
                               ret.res.value.best_region_score)
        /\ Present_("age_group") =>
              /\ ret.res.status = "ok"
              /\ IsBestSegment("age_group", ret.res.value.top_age_group,
                               ret.res.value.top_age_score)

SegColumnComplete(seg) == Present_(seg) /\ \A i \in Rows : Cell(i, seg) # NA
MetricsPresent == {c \in SeqToSet(NumericCols) : Present_(c)}
RECURSIVE CountSum(_, _, _)
CountSum(table, c, keys) ==
    IF keys = {} THEN 0
    ELSE LET k == CHOOSE x \in keys : TRUE
         IN  table.data[k][c].count + CountSum(table, c, keys \ {k})

\* C9 as first stated: when the segment column has no missing value,
\* analyze_by_segment returns one row per distinct segment value and the
\* counts of every retained metric column sum to the number of records.
C9_CountsSumToTotal ==
    (ret.op = "analyze_by_segment" /\ SegColumnComplete(ret.arg)) =>
        /\ ret.res.status = "ok"
        /\ Len(ret.res.value.index) = Cardinality(SegValues(ret.arg))
        /\ \A c \in MetricsPresent :
              CountSum(ret.res.value, c, SeqToSet(ret.res.value.index)) = DfLen(df)

\* C9 amended: when the segment column has no missing value and at least one
\* metric column is present, analyze_by_segment returns one row per distinct
\* segment value, and the counts of every retained metric column sum to the
\* number of records whose value in that column is not missing.
C9_CountsSumToNonMissing ==
    (ret.op = "analyze_by_segment" /\ SegColumnComplete(ret.arg) /\ MetricsPresent # {}) =>
        /\ ret.res.status = "ok"
        /\ Len(ret.res.value.index) = Cardinality(SegValues(ret.arg))
        /\ SeqToSet(ret.res.value.index) = SegValues(ret.arg)
        /\ \A c \in MetricsPresent :
              CountSum(ret.res.value, c, SeqToSet(ret.res.value.index))
                  = Cardinality({i \in Rows : Cell(i, c) # NA})

C9_Witness ==
    /\ Returned("analyze_by_segment")
    /\ SegColumnComplete(ret.arg)
    /\ Len(ret.res.value.index) = 2
    /\ \E i \in Rows : Cell(i, "satisfaction") = NA
    /\ CountSum(ret.res.value, "satisfaction", SeqToSet(ret.res.value.index)) < DfLen(df)
    /\ CountSum(ret.res.value, "satisfaction", SeqToSet(ret.res.value.index)) > 0

MetricRank(c) ==
    CASE c = "satisfaction" -> 1
      [] c = "product_quality" -> 2
      [] c = "customer_service" -> 3
      [] c = "value_for_money" -> 4
      [] c = "likelihood_to_recommend" -> 5

\* C10: analyze_by_segment aggregates exactly the metric columns among
\* satisfaction, product_quality, customer_service, value_for_money and
\* likelihood_to_recommend that the dataset has, in that order, and returns
\* the empty table, without grouping, when the dataset has none of them.
C10_MetricColumnsRetained ==
    ret.op = "analyze_by_segment" =>
        /\ MetricsPresent = {} => ret.res = [status |-> "ok", value |-> EmptyTable]
        /\ (MetricsPresent # {} /\ Present_(ret.arg)) =>
              LET cols == ret.res.value.columns
              IN  /\ ret.res.status = "ok"
                  /\ {cols[j][1] : j \in 1..Len(cols)} = MetricsPresent
                  /\ Len(cols) = 3 * Cardinality(MetricsPresent)
                  /\ \A i, j \in 1..Len(cols) :
                        i < j => MetricRank(cols[i][1]) <= MetricRank(cols[j][1])
                  /\ \A k \in SeqToSet(ret.res.value.index) :
                        DOMAIN ret.res.value.data[k] = MetricsPresent

C10_Witness ==
    /\ Returned("analyze_by_segment")
    /\ Present_(ret.arg)
    /\ MetricsPresent = {"product_quality", "likelihood_to_recommend"}
    /\ Len(ret.res.value.index) > 0
    /\ Len(ret.res.value.columns) = 6

\* C11: get_sentiment_analysis returns None exactly when the dataset has no
\* feedback column; with the column and at least one record every record is
\* classified once, so positive + neutral + negative = total_responses.
C11_SentimentSignalAndSum ==
    ret.op = "get_sentiment_analysis" =>
        /\ (ret.res = [status |-> "ok", value |-> <<>>]) <=> ~Present_("feedback")
        /\ (Present_("feedback") /\ DfLen(df) > 0) =>
              /\ ret.res.status = "ok"
              /\ Len(ret.res.value) = 1
              /\ ret.res.value[1].positive + ret.res.value[1].neutral
                     + ret.res.value[1].negative = Len(df.rows)

C11_Witness ==
    /\ Returned("get_sentiment_analysis")
    /\ Present_("feedback")
    /\ DfLen(df) = 2
    /\ ret.res.value[1].positive = 1
    /\ ret.res.value[1].negative = 1

\* list words found at least once in the lower-cased text, each counted once
WordsFound(cell, words) ==
    {w \in SeqToSet(words) : Contains(Lower(Chars(cell[1])), Chars(w))}
ExpectedSentiment(cell) ==
    IF cell = NA THEN "neutral"
    ELSE LET P == Cardinality(WordsFound(cell, positive_words))
             N == Cardinality(WordsFound(cell, negative_words))
         IN  CASE P > N -> "positive"
               [] N > P -> "negative"
               [] OTHER -> "neutral"
RowsExpected(label) == {i \in Rows : ExpectedSentiment(Cell(i, "feedback")) = label}

\* C12: a record with missing feedback is neutral; otherwise it is positive,
\* negative or neutral as the number P of positive-list words found in the
\* lower-cased text is above, below or equal to the number N of negative-list
\* words found; "Excellent product quality!" is positive and "Could be
\* better" is neutral.
C12_ClassificationRule ==
    (Returned("get_sentiment_analysis") /\ Present_("feedback")) =>
        LET v == ret.res.value[1]
        IN  /\ v.positive = Cardinality(RowsExpected("positive"))
            /\ v.negative = Cardinality(RowsExpected("negative"))
            /\ v.neutral = Cardinality(RowsExpected("neutral"))
            /\ df.rows = <<[feedback |-> <<"Excellent product quality!">>]>> =>
                  v.positive = 1
            /\ df.rows = <<[feedback |-> <<"Could be better">>]>> => v.neutral = 1
            /\ df.rows = <<[feedback |-> <<>>]>> => v.neutral = 1

C12_Witness ==
    /\ Returned("get_sentiment_analysis")
    /\ df.columns = {"feedback"}
    /\ df.rows = <<[feedback |-> <<"Excellent product quality!">>],
                   [feedback |-> <<"Could be better">>]>>
    /\ ret.res.value[1].positive = 1
    /\ ret.res.value[1].neutral = 1

\* C13: on a dataset with a feedback column and zero records
\* get_sentiment_analysis returns a summary with all counts 0 and a defined
\* positive_pct.
C13_EmptyFeedbackReturnsSummary ==
    (ret.op = "get_sentiment_analysis" /\ Present_("feedback") /\ DfLen(df) = 0) =>
        /\ ret.res.status = "ok"
        /\ Len(ret.res.value) = 1
        /\ ret.res.value[1].positive = 0
        /\ ret.res.value[1].neutral = 0
        /\ ret.res.value[1].negative = 0
        /\ ret.res.value[1].positive_pct.d > 0

\* C14: the total_responses of every returned statistics record is the
\* number of records of the dataset.
C14_TotalResponsesIsLen ==
    Returned("calculate_statistics") => ret.res.value.total_responses = Len(df.rows)

C14_Witness ==
    /\ Returned("calculate_statistics")
    /\ Len(df.rows) = 3
    /\ \E i \in Rows : \E c \in df.columns : Cell(i, c) = NA
    /\ ret.res.value.total_responses = 3

C16_DatasetUnchanged == [][df' = df]_vars

C16_Witness ==
    /\ Returned("get_sentiment_analysis")
    /\ Present_("feedback")
    /\ DfLen(df) > 0
    /\ "sentiment" \notin df.columns

ServiceUnavailable == ~GeminiProvider(env).available

C18_GenerateNeverRaises ==
    ret.op = "generate" =>
        /\ ret.res.status = "ok"
        /\ Len(ret.res.value) <= 1
        /\ Len(calls) <= 1
        /\ ~llm.available => (ret.res.value = None /\ calls = <<>>)

C18_Witness ==
    /\ ret.op = "generate"
    /\ llm.available
    /\ ret.res.status = "ok"
    /\ ret.res.value = None
    /\ calls = <<"prompt">>

NarrativePrompts == {"summary", "trends", "recommendations"}
Occurrences(seq, x) == Cardinality({i \in 1..Len(seq) : seq[i] = x})

\* C19: once the statistics and the sentiment summary are there,
\* generate_report completes with three non-empty narrative texts and at
\* most one request per narrative section; with an unavailable provider
\* every narrative text is the placeholder and no request is sent, and
\* generate_output_explanation writes a non-empty explanation.
C19_PlaceholderAndCompletion ==
    /\ (ret.op = "generate_report" /\ stats # None /\ IsOk(get_sentiment_analysis(df))) =>
          /\ ret.res.status = "ok"
          /\ ret.res.value.summary # ""
          /\ ret.res.value.trends # ""
          /\ ret.res.value.recommendations # ""
          /\ \A prompt \in NarrativePrompts : Occurrences(calls, prompt) <= 1
          /\ ~llm.available =>
                /\ calls = <<>>
                /\ ret.res.value.summary = GeminiUnavailableText
                /\ ret.res.value.trends = GeminiUnavailableText
                /\ ret.res.value.recommendations = GeminiUnavailableText
    /\ (ret.op = "get_llm_insights" /\ stats # None /\ ~llm.available) =>
          /\ ret.res.status = "ok"
          /\ ret.res.value = GeminiUnavailableText
          /\ calls = <<>>
    /\ (ret.op = "generate_output_explanation" /\ stats # None) =>
          /\ ret.res.status = "ok"
          /\ ret.res.value.explanation # ""
          /\ ~llm.available => ret.res.value.explanation = ExplanationErrorText

IsError(r, e, m) == r.status = "raised" /\ r.exc = e /\ r.msg = m
FileNotFound(r) == IsError(r, "FileNotFoundError", "File not found")
UnsupportedType(r) == IsError(r, "ValueError", "Unsupported file type")
NoTablesFound(r) == IsError(r, "ValueError", "No tables found in PDF")

\* the format loader each explored path stands for
ExpectedLoader(path) ==
    IF path \in CsvPaths THEN <<"load_from_csv">>
    ELSE IF path \in ExcelPaths THEN <<"load_from_excel">>
    ELSE IF path \in PdfPaths THEN <<"load_from_pdf">>
    ELSE <<>>

NoUsableTable(file) == \A i \in 1..Len(file.tables) : Len(file.tables[i]) < 2

\* C20: load_from_file raises FileNotFoundError exactly for a missing file,
\* whatever its extension; "Unsupported file type" exactly for an existing
\* file whose extension, lower-cased, is none of .csv, .xlsx, .xls, .pdf;
\* "No tables found in PDF" for a readable PDF without a table of a header
\* row and a data row, and for nothing else; and it calls exactly the one
\* format loader of the extension in every case but the first two.
C20_LoaderErrorsAndDispatch ==
    ret.op = "load_from_file" =>
        /\ FileNotFound(ret.res) <=> ~ret.arg.exists
        /\ UnsupportedType(ret.res) <=> (ret.arg.exists /\ ret.arg.path \in OtherPaths)
        /\ (ret.arg.exists /\ ret.arg.path \in PdfPaths /\ env.pdfplumber
                /\ ret.arg.parses /\ NoUsableTable(ret.arg)) => NoTablesFound(ret.res)
        /\ NoTablesFound(ret.res) => (ret.arg.path \in PdfPaths /\ NoUsableTable(ret.arg))
        /\ calls = IF ret.arg.exists THEN ExpectedLoader(ret.arg.path) ELSE <<>>

C20_Witness ==
    /\ ret.op = "load_from_file"
    /\ ret.arg.path = <<"R", ".", "P", "D", "F">>
    /\ ret.arg.tables = <<<<>>, <<<<"satisfaction">>>>>>
    /\ NoTablesFound(ret.res)
    /\ calls = <<"load_from_pdf">>

SectionOrder ==
    <<"header", "kpis", "nps_breakdown", "sentiment", "age_table", "region_table",
      "top_performers", "ai_summary", "ai_trends", "ai_recommendations", "data_quality",
      "statistical_notes">>

OptionalSections == {"sentiment", "age_table", "region_table"}

TableSupplied(table) == table # None /\ Len(table[1].index) > 0 /\ Len(table[1].columns) > 0

\* C21: a written report has its sections in the fixed order header, KPIs,
\* NPS breakdown, sentiment, age-group table, region table, top performers,
\* summary, trends, recommendations, data quality, statistical notes; the
\* sentiment section is there exactly when a sentiment summary was handed
\* over, each segment table exactly when its table was handed over and is
\* not empty, every other section always, and none twice.
C21_SectionOrder ==
    (ret.op = "generate_report" /\ IsOk(ret.res)) =>
        LET sections == ret.res.value.sections
            written == SeqToSet(sections)
            Written(name) == name \in written
        IN  /\ sections = SelectSeq(SectionOrder, Written)
            /\ SeqToSet(SectionOrder) \ OptionalSections \subseteq written
            /\ Written("sentiment") <=> ret.arg.sentiment # None
            /\ Written("age_table") <=> TableSupplied(ret.arg.age_analysis)
            /\ Written("region_table") <=> TableSupplied(ret.arg.region_analysis)

\* a report with every optional section
C21_Witness ==
    /\ ret.op = "generate_report"
    /\ IsOk(ret.res)
    /\ ret.res.value.sections = SectionOrder

\* a report whose region table was handed over empty
C21_WitnessEmptyTable ==
    /\ ret.op = "generate_report"
    /\ IsOk(ret.res)
    /\ ret.arg.region_analysis # None
    /\ TableEmpty(ret.arg.region_analysis[1])
    /\ ret.res.value.sections = SelectSeq(SectionOrder, LAMBDA n : n \notin OptionalSections)

DefaultRuns == {i \in 1..Len(fs.runs) : ~fs.runs[i].explicit}

\* C22: every construction without an explicit output directory gets a
\* directory of its own that did not exist before: no two such
\* constructions obtain the same directory, whether they start in
\* different seconds or in the same one.
C22_FreshDirectoryPerRun ==
    /\ \A i \in DefaultRuns : ~fs.runs[i].existed
    /\ \A i, j \in DefaultRuns : i # j => fs.runs[i].output_dir # fs.runs[j].output_dir

CachingOps == {"get_llm_insights", "generate_report", "generate_output_explanation"}

\* the statistics of the loaded dataset, under either pandas behaviour
StatisticsOf(frame) == {calculate_comprehensive_stats(frame, b) : b \in BOOLEAN}

CacheOfDataset == stats # None => Ok(stats[1]) \in StatisticsOf(df)

CacheStep ==
    /\ ret'.op \in CachingOps =>
          /\ stats # None => stats' = stats
          /\ stats = None =>
                \E computed \in StatisticsOf(df) :
                    IF IsOk(computed) THEN stats' = <<computed.value>>
                    ELSE stats' = None /\ ret'.res = computed
          /\ IsOk(ret'.res) => stats' # None
    /\ ret'.op = "calculate_statistics" =>
          /\ ret'.res \in StatisticsOf(df)
          /\ stats' = IF IsOk(ret'.res) THEN <<ret'.res.value>> ELSE stats
    /\ ret'.op \notin CachingOps \cup {"calculate_statistics"} => stats' = stats
    /\ history'.first # None => history'.first = IF history.first # None THEN history.first ELSE stats'

\* C23: the statistics cache is absent after construction; a cached
\* record is always the statistics of the loaded dataset; get_llm_insights,
\* generate_report and generate_output_explanation leave a present cache
\* alone, fill an absent one before doing anything else (or fail with the
\* exception of the statistics) and never complete with an absent cache;
\* calculate_statistics installs the record it has just computed and
\* returns, a record returned earlier keeps its value, and no other
\* operation touches the cache.
C23_StatisticsCache ==
    /\ [](ret.op = "init" => stats = None)
    /\ []CacheOfDataset
    /\ [][CacheStep]_vars

\* a narrative operation filled the cache itself and completed
C23_Witness ==
    /\ ret.op \in CachingOps
    /\ IsOk(ret.res)
    /\ stats # None
    /\ history.first = None

ExportOrder ==
    <<"age_group_analysis.csv", "regional_analysis.csv", "survey_raw_data.csv",
      "statistics.json">>

\* C24: export_data returns the files it wrote in the order age-group CSV,
\* region CSV, raw dataset CSV, statistics file; the raw dataset always,
\* each segment CSV exactly when the dataset has its column, the statistics
\* file exactly when the statistics cache is filled at the call.  The
\* export step of main() therefore always writes the statistics file, and
\* an export before any statistics were computed does not.
C24_ExportedFiles ==
    ret.op = "export_data" =>
        /\ IsOk(ret.res)
        /\ LET files == ret.res.value
                written == SeqToSet(files)
                Written(name) == name \in written
            IN  /\ files = SelectSeq(ExportOrder, Written)
                /\ Written("survey_raw_data.csv")
                /\ Written("age_group_analysis.csv") <=> "age_group" \in df.columns
                /\ Written("regional_analysis.csv") <=> "region" \in df.columns
                /\ Written("statistics.json") <=> stats # None
                /\ pc = "exported" => Written("statistics.json")
                /\ (history.on /\ history.first = None /\ stats = None) =>
                        ~Written("statistics.json")

\* the export step of main() on the sample data: all four files
C24_Witness ==
    /\ pc = "exported"
    /\ ret.op = "export_data"
    /\ ret.res = Ok(ExportOrder)

\* an export as the first operation on an analyzer
C24_WitnessEarly ==
    /\ pc = "api"
    /\ ret.op = "export_data"
    /\ stats = None
    /\ ret.res = Ok(<<"regional_analysis.csv", "survey_raw_data.csv">>)

\* every recommendation score is there and is an integer from 0 to 10
ScoresOnScale == \A i \in Rows : Score(i) # NA /\ Score(i)[1] \in 0..10

OnScale(lo, hi) == {i \in Rows : Score(i) # NA /\ Score(i)[1] \in lo..hi}

\* C25: in a statistics record promoters, passives and detractors count
\* three pairwise disjoint sets of records (scores >= 9, 7 to 8, <= 6), so
\* their sum is at most total_responses; when every score is an integer
\* from 0 to 10 and none is missing they count the records scoring 9-10,
\* 7-8 and 0-6, every record is in exactly one of them, the sum is
\* total_responses, and nps_score x total_responses =
\* (promoters - detractors) x 100 for the counts of the same record.
C25_NpsPartition ==
    (Returned("calculate_statistics") /\ Present_("likelihood_to_recommend")) =>
        LET record == ret.res.value
        IN  /\ record.promoters = Cardinality(PromoterRows)
            /\ record.passives = Cardinality(PassiveRows)
            /\ record.detractors = Cardinality(DetractorRows)
            /\ PromoterRows \cap PassiveRows = {}
            /\ PromoterRows \cap DetractorRows = {}
            /\ PassiveRows \cap DetractorRows = {}
            /\ record.promoters + record.passives + record.detractors <= record.total_responses
            /\ ScoresOnScale =>
                  /\ PromoterRows = OnScale(9, 10)
                  /\ PassiveRows = OnScale(7, 8)
                  /\ DetractorRows = OnScale(0, 6)
                  /\ PromoterRows \cup PassiveRows \cup DetractorRows = Rows
                  /\ record.promoters + record.passives + record.detractors
                         = record.total_responses
                  /\ record.nps_score.d > 0
                  /\ record.nps_score.n * record.total_responses
                         = record.nps_score.d * 100 * (record.promoters - record.detractors)

\* one record of each class, a score of 0 among them
C25_Witness ==
    /\ Returned("calculate_statistics")
    /\ Present_("likelihood_to_recommend")
    /\ ScoresOnScale
    /\ \E i \in Rows : Score(i) = <<0>>
    /\ ret.res.value.promoters = 1
    /\ ret.res.value.passives = 1
    /\ ret.res.value.detractors = 1

\* a record outside every class: the sum of the counts stays below the total
C25_WitnessOffScale ==
    /\ Returned("calculate_statistics")
    /\ Present_("likelihood_to_recommend")
    /\ \E i \in Rows : Score(i) = NA
    /\ ret.res.value.promoters + ret.res.value.passives + ret.res.value.detractors
           < ret.res.value.total_responses

DividedByZero(r) == r.status = "raised" /\ r.exc = "ZeroDivisionError"

\* C26: whatever the statistics record, one with total_responses = 0
\* included, generate_report and get_llm_insights do not end in a division
\* by zero: the percentages they derive from total_responses are guarded.
C26_NoDivisionByZero ==
    (ret.op \in {"generate_report", "get_llm_insights"} /\ stats # None) =>
        ~DividedByZero(ret.res)

PanelCount(label) == ret.res.value.nps_counts[1][label]

\* C27: on a dataset whose recommendation scores are integers from 0 to
\* 10, none missing, the NPS panel of the dashboard shows the detractors,
\* passives and promoters of the statistics record, and its three counts
\* add up to the number of records.
C27_PanelMatchesStatistics ==
    (Returned("create_dashboard") /\ Present_("likelihood_to_recommend") /\ ScoresOnScale) =>
        LET Agrees(computed) ==
                IsOk(computed) =>
                    /\ PanelCount("Detractors\n(0-6)") = computed.value.detractors
                    /\ PanelCount("Passives\n(7-8)") = computed.value.passives
                    /\ PanelCount("Promoters\n(9-10)") = computed.value.promoters
        IN  /\ \A computed \in StatisticsOf(df) : Agrees(computed)
            /\ PanelCount("Detractors\n(0-6)") + PanelCount("Passives\n(7-8)")
                   + PanelCount("Promoters\n(9-10)") = DfLen(df)

====
